---- MODULE Spec2Model ----
(***************************************************************************)
(* Model of the framework-agnostic web layer of todo-api and of its Gin    *)
(* adapter: the interceptor chain (web/gin NewInterceptor, Next, the       *)
(* capturing response writer), the handler wrapper (NewHandlerJSON, do,    *)
(* recoverHandlerResp, render) and the error-to-status mapper chain        *)
(* (web.ErrorHandler).                                                     *)
(*                                                                         *)
(* One exchange is a synchronous call chain; it is modelled with an        *)
(* explicit call stack.  Gin's handler list is handlers[0..n-1] = the      *)
(* interceptors wrapped by NewInterceptor, handlers[n] = the terminal      *)
(* handler wrapped by NewHandlerJSON.                                      *)
(***************************************************************************)
EXTENDS Integers, Sequences, FiniteSets, TLC

(***************************************************************************)
(* Bounds of the model.                                                    *)
(***************************************************************************)
\* interceptors registered before the handler
MaxInterceptors == 3
\* Next() calls of an exchange made by an interceptor that already called it
MaxRepeats == 1
MaxMappers == 3
MaxWrapDepth == 3
MaxCauses == 3
MaxValues == 2
MaxWrapLinks == 2

(***************************************************************************)
(* Program constants.                                                      *)
(***************************************************************************)
StatusOK == 200
StatusCreated == 201
StatusNoContent == 204
StatusBadRequest == 400
StatusNotFound == 404
StatusInternalServerError == 500
MaxTitleLen == 100
MaxDescriptionLen == 500
\* gin index of the first interceptor: handlers[0] is gin.Recovery()
FirstLink == 1

HeaderKeys == {"Content-Type", "X-Trace"}
NoHeaders == [k \in HeaderKeys |-> <<>>]

Range(s) == {s[i] : i \in 1..Len(s)}

(***************************************************************************)
(* []byte values: a nil slice is distinct from an empty one.               *)
(***************************************************************************)
NilBytes == [nil |-> TRUE, b |-> <<>>]
Bytes(s) == [nil |-> FALSE, b |-> s]

(***************************************************************************)
(* web.Response                                                            *)
(***************************************************************************)
NewResponseWithHeader(sc, b, h) == [Status |-> sc, Body |-> b, Headers |-> h]
NewResponse(sc, b) == NewResponseWithHeader(sc, b, NoHeaders)
ZeroResponse == NewResponseWithHeader(0, NilBytes, NoHeaders)

\* stringsEqual of package web (the gin adapter has a copy of it)
StringsEqual(a, b) ==
    /\ Len(a) = Len(b)
    /\ \A i \in 1..Len(a) : a[i] \in {b[j] : j \in 1..Len(b)}

\* Response.Equal.  Here an http.Header is the function from the keys that
\* are present to their values; len(h) is the number of keys.
Equal(r, v) ==
    /\ r.Status = v.Status
    /\ r.Body.b = v.Body.b
    /\ Cardinality(DOMAIN r.Headers) = Cardinality(DOMAIN v.Headers)
    /\ \A k \in DOMAIN r.Headers :
          k \in DOMAIN v.Headers /\ StringsEqual(r.Headers[k], v.Headers[k])

(***************************************************************************)
(* Go error values.  An error is its concrete type, its identity (the      *)
(* pointer of a sentinel, or the field values of a comparable struct) and  *)
(* the errors its Unwrap method returns.                                   *)
(***************************************************************************)
NewError(id) == [type |-> "errorString", id |-> id, inner |-> <<>>]
\* fmt.Errorf("...: %w", e)
Wrap(e) == [type |-> "wrapError", id |-> "wrap", inner |-> <<e>>]
\* a struct error type declared by the application
ValidationError(field) == [type |-> "ValidationError", id |-> field, inner |-> <<>>]
CustomError(code) == [type |-> "customError", id |-> code, inner |-> <<>>]
\* errors.Join(a, b): Unwrap() []error
Join(a, b) == [type |-> "joinError", id |-> "join", inner |-> <<a, b>>]

ErrTodoNotFound == NewError("todo not found")
ErrInvalidStatus ==
    NewError("invalid status: must be pending, in_progress, or completed")

BaseErrors ==
    {ErrTodoNotFound, ErrInvalidStatus, ValidationError("title"), CustomError("c1")}

RECURSIVE WrapN(_, _)
WrapN(e, d) == IF d = 0 THEN e ELSE Wrap(WrapN(e, d - 1))

Errors ==
    {WrapN(e, d) : e \in BaseErrors, d \in 0..MaxWrapDepth}
        \cup {Join(ErrInvalidStatus, ErrTodoNotFound)}

\* err.Error()
RECURSIVE ErrorMessage(_)
ErrorMessage(e) ==
    CASE e.type = "wrapError" -> (e.id \o ": ") \o ErrorMessage(e.inner[1])
      [] e.type = "joinError" ->
            (ErrorMessage(e.inner[1]) \o "\n") \o ErrorMessage(e.inner[2])
      [] OTHER -> e.id

\* errors.Is(err, target): err or an error of its unwrap tree equals target
RECURSIVE ErrorsIs(_, _)
ErrorsIs(err, target) ==
    \/ err = target
    \/ \E i \in 1..Len(err.inner) : ErrorsIs(err.inner[i], target)

\* errors.As(err, target) with target a pointer to concrete type t: an error
\* of the unwrap tree is assignable to t, that is, has exactly that type
RECURSIVE ErrorsAs(_, _)
ErrorsAs(err, t) ==
    \/ err.type = t
    \/ \E i \in 1..Len(err.inner) : ErrorsAs(err.inner[i], t)

\* the error that errors.As assigns to its target: the first error of the
\* unwrap tree, depth first, whose type is t; <<>> when there is none
RECURSIVE FindAs(_, _)
RECURSIVE FindAsIn(_, _, _)
FindAs(err, t) == IF err.type = t THEN <<err>> ELSE FindAsIn(err.inner, 1, t)
FindAsIn(inner, i, t) ==
    IF i > Len(inner) THEN <<>>
    ELSE LET r == FindAs(inner[i], t)
         IN IF r # <<>> THEN r ELSE FindAsIn(inner, i + 1, t)

(***************************************************************************)
(* web.ErrorHandler: the mapper chain.                                     *)
(***************************************************************************)
NewErrorHandlerValueMapper(v, sc) == [kind |-> "value", v |-> v, sc |-> sc]
NewErrorHandlerTypeMapper(v, sc) == [kind |-> "type", v |-> v, sc |-> sc]

\* bug variant: the sentinel is compared with the outermost error only
ValueMapperShallow(v, sc, err) ==
    IF err = v THEN [sc |-> sc, ok |-> TRUE] ELSE [sc |-> 0, ok |-> FALSE]

\* the closure returned by NewErrorHandlerValueMapper
ValueMapperApply(v, sc, err) ==
    IF ErrorsIs(err, v) THEN [sc |-> sc, ok |-> TRUE] ELSE [sc |-> 0, ok |-> FALSE]

\* bug variant: target is a pointer to the error interface, which any error
\* can be assigned to
TypeMapperAnyError(v, sc, err) == [sc |-> sc, ok |-> TRUE]

\* the closure returned by NewErrorHandlerTypeMapper; target is a zero value
\* of reflect.TypeOf(v)
TypeMapperApply(v, sc, err) ==
    IF ErrorsAs(err, v.type) THEN [sc |-> sc, ok |-> TRUE] ELSE [sc |-> 0, ok |-> FALSE]

ApplyMapper(m, err) ==
    IF m.kind = "value"
    THEN ValueMapperApply(m.v, m.sc, err)
    ELSE TypeMapperApply(m.v, m.sc, err)

NewErrorHandler(mappers) == [mappers |-> mappers]

RECURSIVE StatusLoop(_, _, _, _)
StatusLoop(mappers, i, err, status) ==
    IF i > Len(mappers)
    THEN status
    ELSE LET r == ApplyMapper(mappers[i], err)
         IN StatusLoop(mappers, i + 1, err, IF r.ok THEN r.sc ELSE status)

\* bug variant: the first matching mapper wins
RECURSIVE FirstMatchLoop(_, _, _, _)
FirstMatchLoop(mappers, i, err, def) ==
    IF i > Len(mappers)
    THEN def
    ELSE LET r == ApplyMapper(mappers[i], err)
         IN IF r.ok THEN r.sc ELSE FirstMatchLoop(mappers, i + 1, err, def)

HandleStatusFirstMatch(h, err, def) == FirstMatchLoop(h.mappers, 1, err, def)

\* bug variant: the caller's default is dropped for the conventional 500
HandleStatusFixedDefault(h, err, def) ==
    StatusLoop(h.mappers, 1, err, StatusInternalServerError)

HandleStatusWithDefault(h, err, def) == StatusLoop(h.mappers, 1, err, def)

HandleStatus(h, err) == HandleStatusWithDefault(h, err, StatusInternalServerError)

\* web.NewResponseError(status, causes...)
NewResponseError(status, causes) == [Status |-> status, Causes |-> causes]

\* bug variant: the error is not recorded as the cause
HandleWithoutCause(h, err) == NewResponseError(HandleStatus(h, err), <<>>)

Handle(h, err) == NewResponseError(HandleStatus(h, err), <<err>>)

HandleWithDefault(h, err, def) ==
    NewResponseError(HandleStatusWithDefault(h, err, def), <<err>>)

(***************************************************************************)
(* JSON encoding of a ResponseError.  A byte sequence is modelled as a     *)
(* sequence of string tokens.                                              *)
(***************************************************************************)
StatusText(code) ==
    CASE code = StatusOK -> "OK"
      [] code = StatusCreated -> "Created"
      [] code = StatusNoContent -> "No Content"
      [] code = StatusBadRequest -> "Bad Request"
      [] code = StatusNotFound -> "Not Found"
      [] code = StatusInternalServerError -> "Internal Server Error"
      [] OTHER -> ""

Digit(d) ==
    CASE d = 0 -> "0" [] d = 1 -> "1" [] d = 2 -> "2" [] d = 3 -> "3"
      [] d = 4 -> "4" [] d = 5 -> "5" [] d = 6 -> "6" [] d = 7 -> "7"
      [] d = 8 -> "8" [] OTHER -> "9"

RECURSIVE Itoa(_)
Itoa(k) == IF k < 10 THEN <<Digit(k)>> ELSE Itoa(k \div 10) \o <<Digit(k % 10)>>

JSONString(str) == <<"\"", str, "\"">>

RECURSIVE JSONStrings(_)
JSONStrings(msgs) ==
    IF Len(msgs) = 0 THEN <<>>
    ELSE IF Len(msgs) = 1 THEN JSONString(msgs[1])
    ELSE JSONString(msgs[1]) \o <<",">> \o JSONStrings(Tail(msgs))

\* bug variant: the message field carries the text of the error
MarshalJSONLeaky(e) ==
    <<"{", "\"status\":">> \o Itoa(e.Status)
        \o <<",", "\"error\":">> \o JSONString(StatusText(e.Status))
        \o <<",", "\"message\":">>
        \o JSONString(IF Len(e.Causes) = 0 THEN StatusText(e.Status)
                      ELSE ErrorMessage(e.Causes[1]))
        \o <<",", "\"causes\":", "[">>
        \o JSONStrings([i \in 1..Len(e.Causes) |-> ErrorMessage(e.Causes[i])])
        \o <<"]", "}">>

\* ResponseError.MarshalJSON: restErrorJSON with causes omitted when empty
MarshalJSON(e) ==
    <<"{", "\"status\":">> \o Itoa(e.Status)
        \o <<",", "\"error\":">> \o JSONString(StatusText(e.Status))
        \o <<",", "\"message\":">> \o JSONString(StatusText(e.Status))
        \o (IF Len(e.Causes) = 0
            THEN <<>>
            ELSE <<",", "\"causes\":", "[">>
                    \o JSONStrings([i \in 1..Len(e.Causes) |-> ErrorMessage(e.Causes[i])])
                    \o <<"]">>)
        \o <<"}">>

JSONHeaders == [NoHeaders EXCEPT !["Content-Type"] = <<"application/json">>]

(***************************************************************************)
(* Values handed to NewJSONResponse as b (type any):                       *)
(*   [kind |-> "nil"]                  the nil interface                    *)
(*   [kind |-> "string", s |-> toks]   a string                             *)
(*   [kind |-> "bytes", by |-> bytes]  a []byte, nil or not                 *)
(*   [kind |-> "int", k |-> 42]        an int                               *)
(*   [kind |-> "strings", ss |-> seq]  a []string                           *)
(*   [kind |-> "float", f |-> "+Inf"]  a float64 that JSON cannot encode    *)
(*   [kind |-> "struct", name, o]      a struct of strings and its encoding *)
(***************************************************************************)
NilValue == [kind |-> "nil"]
StringValue(toks) == [kind |-> "string", s |-> toks]
BytesValue(b) == [kind |-> "bytes", by |-> b]

\* fmt's %T
TypeName(b) ==
    CASE b.kind = "int" -> "int"
      [] b.kind = "strings" -> "[]string"
      [] b.kind = "float" -> "float64"
      [] b.kind = "bytes" -> "[]uint8"
      [] b.kind = "string" -> "string"
      [] b.kind = "struct" -> b.name
      [] OTHER -> "<nil>"

\* encoding/json.Marshal(b): the encoding, or the error
JSONMarshal(b) ==
    CASE b.kind = "int" -> [err |-> "", out |-> Itoa(b.k)]
      [] b.kind = "strings" ->
            [err |-> "", out |-> <<"[">> \o JSONStrings(b.ss) \o <<"]">>]
      [] b.kind = "bytes" /\ b.by.nil -> [err |-> "", out |-> <<"null">>]
      [] b.kind = "struct" -> [err |-> "", out |-> b.o]
      [] b.kind = "float" ->
            [err |-> "json: unsupported value: " \o b.f, out |-> <<>>]
      [] OTHER -> [err |-> "", out |-> <<"null">>]

\* fmt.Sprintf(templateInternalParsingErr, b, b, err.Error())
InternalParsingErr(b, msg) ==
    <<"{\n\t\t\"status\": 500,\n\t\t\"error\": \"Internal Server Error\",",
      "\n\t\t\"message\": \"Internal Server Error\",\n\t\t\"causes\": [",
      "\n\t\t\t\"unable to parse ", TypeName(b), " into json ", b.f, ": ", msg,
      "\"\n\t\t]\n\t}">>

\* the switch of NewJSONResponse: the easy cases, nil for the others
EasyBytes(b) ==
    CASE b.kind = "string" -> Bytes(b.s)
      [] b.kind = "bytes" -> b.by
      [] OTHER -> NilBytes

NewJSONResponse(sc, b) ==
    IF b.kind = "nil"
    THEN NewResponseWithHeader(sc, NilBytes, JSONHeaders)
    ELSE LET bytes == EasyBytes(b)
             jb == JSONMarshal(b)
         IN IF ~bytes.nil
            THEN NewResponseWithHeader(sc, bytes, JSONHeaders)
            ELSE IF jb.err # ""
            THEN NewResponseWithHeader(StatusInternalServerError,
                                       Bytes(InternalParsingErr(b, jb.err)),
                                       JSONHeaders)
            ELSE NewResponseWithHeader(sc, Bytes(jb.out), JSONHeaders)

\* NewJSONResponseFromError: MarshalJSON of a ResponseError returns no error,
\* its bytes take the []byte case of NewJSONResponse
NewJSONResponseFromError(e) ==
    NewJSONResponse(e.Status, BytesValue(Bytes(MarshalJSON(e))))

\* strings.Join(ss, sep)
RECURSIVE StringsJoin(_, _)
StringsJoin(ss, sep) ==
    IF Len(ss) = 0 THEN ""
    ELSE IF Len(ss) = 1 THEN ss[1]
    ELSE (ss[1] \o sep) \o StringsJoin(Tail(ss), sep)

\* bug variant: every cause is joined with a comma
ErrorCommaJoined(e) ==
    IF Len(e.Causes) = 0 THEN StatusText(e.Status)
    ELSE (StatusText(e.Status) \o ": ")
            \o StringsJoin([i \in 1..Len(e.Causes) |-> ErrorMessage(e.Causes[i])], ", ")

\* ResponseError.Error
Error(e) ==
    LET count == Len(e.Causes)
    IN CASE count = 0 -> StatusText(e.Status)
         [] count = 1 ->
                (StatusText(e.Status) \o ": ") \o ErrorMessage(e.Causes[1])
         [] OTHER ->
                LET ss == [i \in 1..(count - 1) |-> ErrorMessage(e.Causes[i])]
                    str == StringsJoin(ss, ", ")
                IN (((StatusText(e.Status) \o ": ") \o str) \o " and ")
                        \o ErrorMessage(e.Causes[count])

\* fmt.Errorf("%v", v)
Errorf(msg) == [type |-> "fmtError", id |-> msg, inner |-> <<>>]

(***************************************************************************)
(* The todo API: domain, service, usecase, controller.  A pointer and an   *)
(* error result are sequences of at most one element, <<>> is nil.  An id  *)
(* is the sequence of its characters.                                      *)
(***************************************************************************)
Nil == <<>>

StatusPending == "pending"
StatusInProgress == "in_progress"
StatusCompleted == "completed"
PriorityLow == "low"
PriorityMedium == "medium"
PriorityHigh == "high"

ErrInvalidPriority == NewError("invalid priority: must be low, medium, or high")
ErrInvalidTitle == NewError("invalid title: must be between 1 and 100 characters")
ErrInvalidDescription ==
    NewError("invalid description: must be at most 500 characters")
ErrInvalidID == NewError("invalid id: must be a valid UUID")
ErrEmptyUpdateRequest == NewError("update request must contain at least one field")

\* Status.IsValid, Priority.IsValid
StatusIsValid(s) == s \in {StatusPending, StatusInProgress, StatusCompleted}
PriorityIsValid(p) == p \in {PriorityLow, PriorityMedium, PriorityHigh}

\* bug variant: no id is refused
ValidateNothing(id) == Nil

\* uuidRegex: 8-4-4-4-12 hexadecimal digits, anchored at both ends
ValidateUUID(id) ==
    LET hexDigits ==
            {"0", "1", "2", "3", "4", "5", "6", "7", "8", "9",
             "a", "b", "c", "d", "e", "f", "A", "B", "C", "D", "E", "F"}
        uuidRegexMatch ==
            /\ Len(id) = 36
            /\ \A i \in 1..36 :
                  IF i \in {9, 14, 19, 24} THEN id[i] = "-" ELSE id[i] \in hexDigits
    IN IF ~uuidRegexMatch THEN <<ErrInvalidID>> ELSE Nil

\* domain.Todo; Description is "" when the column is NULL; the timestamps
\* are held as their text in the layout 2006-01-02T15:04:05Z
ZeroTodo ==
    [ID |-> <<>>, Title |-> "", Description |-> "", Status |-> "",
     Priority |-> "", CreatedAt |-> "", UpdatedAt |-> ""]

(***************************************************************************)
(* The service on a table of todos.  rows maps the stored ids to           *)
(*   [Title, Description (a pointer: <<>> is NULL), Status, Priority,      *)
(*    CreatedAt, UpdatedAt]                                                *)
(* A fault is the error the driver reports for the statement, or nil.      *)
(***************************************************************************)
ErrNoRows == NewError("sql: no rows in result set")

\* the text of a value of the id column (id UUID): the hexadecimal digits
\* in lower case
UUIDText(id) ==
    [i \in 1..Len(id) |->
        CASE id[i] = "A" -> "a" [] id[i] = "B" -> "b" [] id[i] = "C" -> "c"
          [] id[i] = "D" -> "d" [] id[i] = "E" -> "e" [] id[i] = "F" -> "f"
          [] OTHER -> id[i]]

\* the VARCHAR columns of todos hold a value of at most their length
ColumnsHold(row) ==
    /\ Len(row.Title) <= 100
    /\ row.Description # Nil => Len(row.Description[1]) <= 500
    /\ Len(row.Status) <= 20
    /\ Len(row.Priority) <= 20

\* RETURNING / SELECT id, title, description, status, priority, created_at,
\* updated_at of the row stored under k
ReturnedRow(rows, k) == [ID |-> k] @@ rows[k]

\* row.Scan into domain.Todo: every field from its column
RowToTodo(row) ==
    [ID |-> row.ID, Title |-> row.Title,
     Description |-> IF row.Description = Nil THEN "" ELSE row.Description[1],
     Status |-> row.Status, Priority |-> row.Priority,
     CreatedAt |-> row.CreatedAt, UpdatedAt |-> row.UpdatedAt]

\* get_todos.sql: the rows WHERE ($1 IS NULL OR status = $1) AND ($2 IS
\* NULL OR priority = $2) ORDER BY created_at DESC; order is the order in
\* which the table gives rows of one created_at
QueryGetTodos(rows, order, status, priority, fault) ==
    IF fault # Nil THEN [err |-> fault, rows |-> <<>>]
    ELSE LET Asked(k) == /\ status # Nil => rows[k].Status = status[1]
                         /\ priority # Nil => rows[k].Priority = priority[1]
             found == SelectSeq(order, Asked)
             At(t) == CASE t = "t0" -> 0 [] t = "t1" -> 1 [] OTHER -> 2
             Pos(k) == CHOOSE i \in 1..Len(order) : order[i] = k
             Before(a, b) ==
                 \/ At(rows[a].CreatedAt) > At(rows[b].CreatedAt)
                 \/ /\ At(rows[a].CreatedAt) = At(rows[b].CreatedAt)
                    /\ Pos(a) < Pos(b)
             sorted == CHOOSE q \in [1..Len(found) -> Range(found)] :
                           \A i, j \in 1..Len(found) : i < j => Before(q[i], q[j])
         IN [err |-> Nil,
             rows |-> [i \in 1..Len(found) |-> ReturnedRow(rows, sorted[i])]]

\* row.Scan of get_todo_by_id.sql: the row with that id
QueryGetTodoByID(rows, id, fault) ==
    IF fault # Nil THEN [err |-> fault, row |-> Nil]
    ELSE IF UUIDText(id) \in DOMAIN rows
    THEN [err |-> Nil, row |-> <<ReturnedRow(rows, UUIDText(id))>>]
    ELSE [err |-> <<ErrNoRows>>, row |-> Nil]

\* create_todo.sql: INSERT INTO todos (title, description, status, priority)
\* ... RETURNING ...; newID is the value gen_random_uuid() gives the id
QueryCreateTodo(rows, newID, title, description, status, priority, fault) ==
    LET new == [Title |-> title, Description |-> description,
                Status |-> status, Priority |-> priority,
                CreatedAt |-> "now", UpdatedAt |-> "now"]
    IN IF fault # Nil THEN [err |-> fault, row |-> Nil, rows |-> rows]
       ELSE IF ~ColumnsHold(new)
       THEN [err |-> <<NewError("pq: value too long for type character varying")>>,
             row |-> Nil, rows |-> rows]
       ELSE LET stored == (newID :> new) @@ rows
            IN [err |-> Nil, row |-> <<ReturnedRow(stored, newID)>>,
                rows |-> stored]

\* update_todo.sql: UPDATE todos SET x = COALESCE($n, x), updated_at = NOW()
\* WHERE id = $1 RETURNING ...
QueryUpdateTodo(rows, id, title, description, status, priority, fault) ==
    IF fault # Nil THEN [err |-> fault, row |-> Nil, rows |-> rows]
    ELSE IF UUIDText(id) \in DOMAIN rows
    THEN LET Coalesce(p, v) == IF p = Nil THEN v ELSE p[1]
             k == UUIDText(id)
             old == rows[k]
             new == [Title |-> Coalesce(title, old.Title),
                     Description |-> IF description = Nil THEN old.Description
                                     ELSE description,
                     Status |-> Coalesce(status, old.Status),
                     Priority |-> Coalesce(priority, old.Priority),
                     CreatedAt |-> old.CreatedAt,
                     UpdatedAt |-> "now"]
             stored == [rows EXCEPT ![k] = new]
         IN IF ~ColumnsHold(new)
            THEN [err |-> <<NewError("pq: value too long for type character varying")>>,
                  row |-> Nil, rows |-> rows]
            ELSE [err |-> Nil, row |-> <<ReturnedRow(stored, k)>>, rows |-> stored]
    ELSE [err |-> <<ErrNoRows>>, row |-> Nil, rows |-> rows]

\* delete_todo.sql: the row with that id is deleted
ExecDeleteTodo(rows, id, fault) ==
    IF fault # Nil THEN [err |-> fault, affected |-> 0, rows |-> rows]
    ELSE IF UUIDText(id) \in DOMAIN rows
    THEN [err |-> Nil, affected |-> 1,
          rows |-> [i \in DOMAIN rows \ {UUIDText(id)} |-> rows[i]]]
    ELSE [err |-> Nil, affected |-> 0, rows |-> rows]

\* postgresService.Get; fault.scan is the error of rows.Scan and fault.iter
\* the error of rows.Err(), each met after fault.at rows were read
ServiceGet(rows, order, filters, fault) ==
    LET q == QueryGetTodos(rows, order, filters.Status, filters.Priority,
                           fault.query)
        read == IF fault.at < Len(q.rows) THEN fault.at ELSE Len(q.rows)
    IN IF q.err # Nil THEN [todos |-> <<>>, err |-> q.err, rows |-> rows]
       ELSE IF fault.scan # Nil /\ fault.at < Len(q.rows)
       THEN [todos |-> <<>>, err |-> fault.scan, rows |-> rows]
       ELSE IF fault.iter # Nil
       THEN [todos |-> [i \in 1..read |-> RowToTodo(q.rows[i])],
             err |-> fault.iter, rows |-> rows]
       ELSE [todos |-> [i \in 1..Len(q.rows) |-> RowToTodo(q.rows[i])],
             err |-> Nil, rows |-> rows]

\* postgresService.GetByID
ServiceGetByID(rows, id, fault) ==
    LET q == QueryGetTodoByID(rows, id, fault.query)
    IN IF q.err # Nil
       THEN IF q.err[1] = ErrNoRows
            THEN [todo |-> ZeroTodo, err |-> <<ErrTodoNotFound>>, rows |-> rows]
            ELSE [todo |-> ZeroTodo, err |-> q.err, rows |-> rows]
       ELSE [todo |-> RowToTodo(q.row[1]), err |-> Nil, rows |-> rows]

\* postgresService.Create
ServiceCreate(rows, newID, input, fault) ==
    LET q == QueryCreateTodo(rows, newID, input.Title, input.Description,
                             input.Status, input.Priority, fault.query)
    IN IF q.err # Nil THEN [todo |-> ZeroTodo, err |-> q.err, rows |-> q.rows]
       ELSE [todo |-> RowToTodo(q.row[1]), err |-> Nil, rows |-> q.rows]

\* postgresService.Update
ServiceUpdate(rows, id, input, fault) ==
    LET q == QueryUpdateTodo(rows, id, input.Title, input.Description,
                             input.Status, input.Priority, fault.query)
    IN IF q.err # Nil
       THEN IF q.err[1] = ErrNoRows
            THEN [todo |-> ZeroTodo, err |-> <<ErrTodoNotFound>>, rows |-> q.rows]
            ELSE [todo |-> ZeroTodo, err |-> q.err, rows |-> q.rows]
       ELSE [todo |-> RowToTodo(q.row[1]), err |-> Nil, rows |-> q.rows]

\* bug variant: the number of deleted rows is not looked at
ServiceDeleteAnyCount(rows, id, fault) ==
    LET x == ExecDeleteTodo(rows, id, fault.query)
    IN IF x.err # Nil THEN [todo |-> ZeroTodo, err |-> x.err, rows |-> x.rows]
       ELSE IF fault.affected # Nil
       THEN [todo |-> ZeroTodo, err |-> fault.affected, rows |-> x.rows]
       ELSE [todo |-> ZeroTodo, err |-> Nil, rows |-> x.rows]

\* postgresService.Delete; fault.affected is the error of RowsAffected()
ServiceDelete(rows, id, fault) ==
    LET x == ExecDeleteTodo(rows, id, fault.query)
    IN IF x.err # Nil THEN [todo |-> ZeroTodo, err |-> x.err, rows |-> x.rows]
       ELSE IF fault.affected # Nil
       THEN [todo |-> ZeroTodo, err |-> fault.affected, rows |-> x.rows]
       ELSE IF x.affected = 0
       THEN [todo |-> ZeroTodo, err |-> <<ErrTodoNotFound>>, rows |-> x.rows]
       ELSE [todo |-> ZeroTodo, err |-> Nil, rows |-> x.rows]

(***************************************************************************)
(* The usecase on a service svc that answers [todo, err].  Each operator   *)
(* returns the output, the error and the calls made on the service.        *)
(***************************************************************************)
ServiceCall(op, id, in) == [layer |-> "service", op |-> op, id |-> id, in |-> in]
UsecaseCall(op, id, in) == [layer |-> "usecase", op |-> op, id |-> id, in |-> in]

UsecaseResult(svc, call) ==
    [out |-> IF svc.err # Nil THEN ZeroTodo ELSE svc.todo,
     err |-> svc.err,
     calls |-> <<call>>]

\* usecase.Todo.Get: the output is the list and its length
UsecaseGet(input, svc) ==
    [out |-> IF svc.err # Nil THEN [Todos |-> <<>>, Total |-> 0]
             ELSE [Todos |-> svc.todos, Total |-> Len(svc.todos)],
     err |-> svc.err,
     calls |-> <<ServiceCall("Get", <<>>,
                             [Status |-> input.Status, Priority |-> input.Priority])>>]

UsecaseGetByID(id, svc) == UsecaseResult(svc, ServiceCall("GetByID", id, [none |-> TRUE]))

\* bug variant: an absent status or priority is passed as the zero value
UsecaseCreateNoDefaults(input, svc) ==
    UsecaseResult(svc,
        ServiceCall("Create", <<>>,
            [Title |-> input.Title, Description |-> input.Description,
             Status |-> IF input.Status # Nil THEN input.Status[1] ELSE "",
             Priority |-> IF input.Priority # Nil THEN input.Priority[1]
                          ELSE ""]))

\* usecase.Todo.Create
UsecaseCreate(input, svc) ==
    LET status == IF input.Status # Nil THEN input.Status[1] ELSE StatusPending
        priority == IF input.Priority # Nil THEN input.Priority[1] ELSE PriorityMedium
        svcInput == [Title |-> input.Title, Description |-> input.Description,
                     Status |-> status, Priority |-> priority]
    IN UsecaseResult(svc, ServiceCall("Create", <<>>, svcInput))

UsecaseUpdate(id, input, svc) ==
    UsecaseResult(svc,
        ServiceCall("Update", id,
            [Title |-> input.Title, Description |-> input.Description,
             Status |-> input.Status, Priority |-> input.Priority]))

UsecaseDelete(id, svc) == UsecaseResult(svc, ServiceCall("Delete", id, [none |-> TRUE]))

(***************************************************************************)
(* The controller.  A request is [op, id, query, body]: id is the path     *)
(* parameter (nil when the route has none), query holds the status and     *)
(* priority parameters (nil when absent), body is the JSON document sent:  *)
(*   [kind, title, description, status, priority]                          *)
(* with kind "malformed", "empty", "null" or "object" and, for each field  *)
(* of an object, what the document holds for it.                           *)
(***************************************************************************)
JAbsent == [t |-> "absent", s |-> ""]
JNull == [t |-> "null", s |-> ""]
JNumber == [t |-> "number", s |-> ""]
JString(s) == [t |-> "string", s |-> s]

NoBody ==
    [kind |-> "empty", title |-> JAbsent, description |-> JAbsent,
     status |-> JAbsent, priority |-> JAbsent]

\* DecodeJSON(req.Body(), &body) for CreateRequest (Title is a string) and
\* UpdateRequest (Title is a *string): json.NewDecoder(r).Decode(b)
DecodeJSON(body, titleIsPointer) ==
    LET DecodeString(f) == IF f.t = "string" THEN f.s ELSE ""
        DecodePointer(f) == IF f.t = "string" THEN <<f.s>> ELSE Nil
        zero == [Title |-> IF titleIsPointer THEN Nil ELSE "",
                 Description |-> Nil, Status |-> Nil, Priority |-> Nil]
        fields == {body.title, body.description, body.status, body.priority}
    IN CASE body.kind = "empty" -> [err |-> <<NewError("EOF")>>, v |-> zero]
         [] body.kind = "malformed" ->
                [err |-> <<NewError("invalid character")>>, v |-> zero]
         [] body.kind = "null" -> [err |-> Nil, v |-> zero]
         [] OTHER ->
                [err |-> IF \E f \in fields : f.t = "number"
                         THEN <<NewError("json: cannot unmarshal number")>>
                         ELSE Nil,
                 v |-> [Title |-> IF titleIsPointer THEN DecodePointer(body.title)
                                  ELSE DecodeString(body.title),
                        Description |-> DecodePointer(body.description),
                        Status |-> DecodePointer(body.status),
                        Priority |-> DecodePointer(body.priority)]]

\* newErrorHandler of cmd
newErrorHandler ==
    NewErrorHandler(<<NewErrorHandlerValueMapper(ErrTodoNotFound, StatusNotFound),
                      NewErrorHandlerValueMapper(ErrInvalidStatus, StatusBadRequest),
                      NewErrorHandlerValueMapper(ErrInvalidPriority, StatusBadRequest),
                      NewErrorHandlerValueMapper(ErrInvalidTitle, StatusBadRequest)>>)

\* json.Marshal of MapTodoToResponse(todo)
TodoResponseJSON(todo) ==
    <<"{", "\"id\":", "\"">> \o todo.ID \o <<"\"">>
        \o <<",", "\"title\":">> \o JSONString(todo.Title)
        \o (IF todo.Description = "" THEN <<>>
            ELSE <<",", "\"description\":">> \o JSONString(todo.Description))
        \o <<",", "\"status\":">> \o JSONString(todo.Status)
        \o <<",", "\"priority\":">> \o JSONString(todo.Priority)
        \o <<",", "\"created_at\":">> \o JSONString(todo.CreatedAt)
        \o <<",", "\"updated_at\":">> \o JSONString(todo.UpdatedAt)
        \o <<"}">>

RECURSIVE TodosResponseJSON(_)
TodosResponseJSON(todos) ==
    IF Len(todos) = 0 THEN <<>>
    ELSE IF Len(todos) = 1 THEN TodoResponseJSON(todos[1])
    ELSE TodoResponseJSON(todos[1]) \o <<",">> \o TodosResponseJSON(Tail(todos))

DataResponse(name, todo) ==
    [kind |-> "struct", name |-> name,
     o |-> <<"{", "\"data\":">> \o TodoResponseJSON(todo) \o <<"}">>]
GetResponse(output) ==
    [kind |-> "struct", name |-> "controller.GetResponse",
     o |-> <<"{", "\"data\":", "[">> \o TodosResponseJSON(output.Todos)
               \o <<"]", ",", "\"total\":">> \o Itoa(output.Total) \o <<"}">>]

\* web.NewJSONResponseFromError(web.NewResponseError(http.StatusBadRequest, err))
BadRequest(err) ==
    [resp |-> NewJSONResponseFromError(NewResponseError(StatusBadRequest, <<err>>)),
     calls |-> <<>>]

\* bug variant: every usecase error is answered with 500
ErrorResponseAlways500(c, err) ==
    NewJSONResponseFromError(NewResponseError(StatusInternalServerError, <<err>>))

\* web.NewJSONResponseFromError(c.errHandler.Handle(err))
ErrorResponse(c, err) == NewJSONResponseFromError(Handle(c.errHandler, err))

\* the end of each operation: the usecase was called and answered r
Answer(c, call, r, ok) ==
    [resp |-> IF r.err # Nil THEN ErrorResponse(c, r.err[1]) ELSE ok,
     calls |-> <<call>> \o r.calls]

\* Todo.Create
ControllerCreate(c, req, svc) ==
    LET d == DecodeJSON(req.body, FALSE)
        body == d.v
        input == [Title |-> body.Title, Description |-> body.Description,
                  Status |-> body.Status, Priority |-> body.Priority]
        r == UsecaseCreate(input, svc)
    IN IF d.err # Nil THEN BadRequest(d.err[1])
       ELSE IF Len(body.Title) = 0 \/ Len(body.Title) > MaxTitleLen
       THEN BadRequest(ErrInvalidTitle)
       ELSE IF body.Description # Nil /\ Len(body.Description[1]) > MaxDescriptionLen
       THEN BadRequest(ErrInvalidDescription)
       ELSE IF body.Status # Nil /\ ~StatusIsValid(body.Status[1])
       THEN BadRequest(ErrInvalidStatus)
       ELSE IF body.Priority # Nil /\ ~PriorityIsValid(body.Priority[1])
       THEN BadRequest(ErrInvalidPriority)
       ELSE Answer(c, UsecaseCall("Create", <<>>, input), r,
                   NewJSONResponse(StatusCreated,
                                   DataResponse("controller.CreateResponse", r.out)))

\* Todo.Get
ControllerGet(c, req, svc) ==
    LET input == [Status |-> req.query.status, Priority |-> req.query.priority]
        r == UsecaseGet(input, svc)
    IN IF input.Status # Nil /\ ~StatusIsValid(input.Status[1])
       THEN BadRequest(ErrInvalidStatus)
       ELSE IF input.Priority # Nil /\ ~PriorityIsValid(input.Priority[1])
       THEN BadRequest(ErrInvalidPriority)
       ELSE Answer(c, UsecaseCall("Get", <<>>, input), r,
                   NewJSONResponse(StatusOK, GetResponse(r.out)))

\* Todo.GetByID
ControllerGetByID(c, req, svc) ==
    IF req.id = Nil THEN BadRequest(ErrInvalidID)
    ELSE IF ValidateUUID(req.id[1]) # Nil THEN BadRequest(ValidateUUID(req.id[1])[1])
    ELSE LET r == UsecaseGetByID(req.id[1], svc)
         IN Answer(c, UsecaseCall("GetByID", req.id[1], [none |-> TRUE]), r,
                   NewJSONResponse(StatusOK,
                                   DataResponse("controller.GetByIDResponse", r.out)))

\* Todo.Update
ControllerUpdate(c, req, svc) ==
    LET d == DecodeJSON(req.body, TRUE)
        body == d.v
        input == [Title |-> body.Title, Description |-> body.Description,
                  Status |-> body.Status, Priority |-> body.Priority]
        r == UsecaseUpdate(req.id[1], input, svc)
    IN IF req.id = Nil THEN BadRequest(ErrInvalidID)
       ELSE IF ValidateUUID(req.id[1]) # Nil THEN BadRequest(ValidateUUID(req.id[1])[1])
       ELSE IF d.err # Nil THEN BadRequest(d.err[1])
       ELSE IF body.Title = Nil /\ body.Description = Nil
                /\ body.Status = Nil /\ body.Priority = Nil
       THEN BadRequest(ErrEmptyUpdateRequest)
       ELSE IF body.Title # Nil /\ (Len(body.Title[1]) = 0 \/ Len(body.Title[1]) > MaxTitleLen)
       THEN BadRequest(ErrInvalidTitle)
       ELSE IF body.Description # Nil /\ Len(body.Description[1]) > MaxDescriptionLen
       THEN BadRequest(ErrInvalidDescription)
       ELSE IF body.Status # Nil /\ ~StatusIsValid(body.Status[1])
       THEN BadRequest(ErrInvalidStatus)
       ELSE IF body.Priority # Nil /\ ~PriorityIsValid(body.Priority[1])
       THEN BadRequest(ErrInvalidPriority)
       ELSE Answer(c, UsecaseCall("Update", req.id[1], input), r,
                   NewJSONResponse(StatusOK,
                                   DataResponse("controller.UpdateResponse", r.out)))

\* Todo.Delete
ControllerDelete(c, req, svc) ==
    IF req.id = Nil THEN BadRequest(ErrInvalidID)
    ELSE IF ValidateUUID(req.id[1]) # Nil THEN BadRequest(ValidateUUID(req.id[1])[1])
    ELSE LET r == UsecaseDelete(req.id[1], svc)
         IN Answer(c, UsecaseCall("Delete", req.id[1], [none |-> TRUE]), r,
                   NewJSONResponse(StatusNoContent, NilValue))

(***************************************************************************)
(* State.                                                                  *)
(***************************************************************************)
VARIABLES
    n,          \* number of interceptors registered before the handler
    phase,      \* "idle", "serving", "done"; "panicked" when a panic left gin
    index,      \* gin Context.index (int8)
    stack,      \* call stack of the exchange: gin Next loops and interceptors
    reqCtx,     \* c.Request.Context(): its tag and the capture it carries
    capture,    \* buffers of the interceptedResponse wrappers around c.Writer
    w,          \* gin's response writer: status, written, live headers
    sink,       \* the real output sink: status and headers sent, bytes accepted
    writes,     \* every Write call that reached gin's writer
    notices,    \* calls of noticeError
    renders,    \* calls of render
    links,      \* per interceptor: outcome and whether Next() was called
    calls,      \* per link (interceptor i, handler n): number of invocations
    handlerOut, \* what the terminal handler function did
    swallowed,  \* the Response of the interceptor that short-circuited
    lastReturn, \* the Response the last returning interceptor declared
    crashed,    \* a panic left the links and reached gin.Recovery()
    repeats,    \* Next() calls made by an interceptor that already called it
    recovered,  \* panics of Next() that interceptor functions recovered
    ehMappers,  \* ErrorHandler under test: its mappers
    ehErr,      \* the error handed to it
    ehDef,      \* the caller's default status
    ehResult,   \* the outcome of the call
    jsErr,      \* ResponseError under test
    jsVal,      \* value handed to NewJSONResponse
    jsResult,   \* the outcome of the call on jsErr or jsVal
    eqA,        \* receiver of Response.Equal
    eqB,        \* argument of Response.Equal
    eqResult,   \* the outcome of the comparisons
    ccMappers,  \* ErrorHandler shared by concurrent exchanges: its mappers
    ccErr,      \* per exchange: the error it handles
    ccPos,      \* per exchange: position in the mapper loop (0: not started)
    ccStatus,   \* per exchange: the local variable status
    ccTarget,   \* per mapper: the value held by the closure's target
    ccWriters,  \* per mapper: the exchanges that are inside a write of target,
                \* each with the exchanges whose write overlapped its own
    apiReq,     \* todo API: the request, or the input of the call
    apiOut,     \* todo API: the outcome of the call and the calls it made
    dbRows      \* todo API: the rows of the table todos, by id

chainVars ==
    <<n, phase, index, stack, reqCtx, capture, w, sink, writes, notices,
      renders, links, calls, handlerOut, swallowed, lastReturn, crashed, repeats,
      recovered>>
ehVars == <<ehMappers, ehErr, ehDef, ehResult>>
jsonVars == <<jsErr, jsVal, jsResult>>
equalVars == <<eqA, eqB, eqResult>>
concVars == <<ccMappers, ccErr, ccPos, ccStatus, ccTarget, ccWriters>>
apiVars == <<apiReq, apiOut, dbRows>>
pureVars == <<jsonVars, equalVars, concVars, apiVars>>
libVars == <<ehVars, pureVars>>
vars == <<chainVars, libVars>>

(***************************************************************************)
(* Gin's response writer and Context, as far as the adapter uses them.     *)
(* An operator takes the output state                                      *)
(*   [index, w, sink, capture, writes, notices]                            *)
(* and returns the output state after the call.                            *)
(***************************************************************************)
Out == [index |-> index, w |-> w, sink |-> sink, capture |-> capture,
        writes |-> writes, notices |-> notices]

Int8Inc(x) == IF x = 127 THEN -128 ELSE x + 1

\* bug variant: the chain is not aborted
AbortForgotten(idx) == idx

\* c.Abort(): gin sets the index to abortIndex = math.MaxInt8 >> 1
Abort(idx) == 63

\* c.Status(code) -> responseWriter.WriteHeader(code)
GinStatus(o, code) ==
    IF code > 0 /\ o.w.status # code /\ ~o.w.written
    THEN [o EXCEPT !.w.status = code]
    ELSE o

\* responseWriter.WriteHeaderNow()
WriteHeaderNow(o) ==
    IF o.w.written
    THEN o
    ELSE [o EXCEPT !.w.written = TRUE,
                   !.sink.status = o.w.status,
                   !.sink.header = o.w.header]

\* the results (n, err) the real sink can give for a Write of b
SinkOutcomes(b) ==
    {[n |-> Len(b), err |-> FALSE], [n |-> 0, err |-> TRUE]}
        \cup (IF Len(b) > 1 THEN {[n |-> 1, err |-> TRUE]} ELSE {})
NoWrite == [n |-> 0, err |-> FALSE]

\* responseWriter.Write(b) on gin's own writer
GinWrite(o, by, b, res) ==
    LET o1 == WriteHeaderNow(o)
    IN [o1 EXCEPT !.sink.body = @ \o SubSeq(b, 1, res.n),
                  !.writes = Append(@, [by |-> by, data |-> b,
                                        n |-> res.n, err |-> res.err])]

\* bug variant: the capture buffer is never filled
CaptureNothing(buf, b, i, err) == buf

\* variant: the buffer mirrors the bytes the wrapped writer took
CaptureAccepted(buf, b, i, err) == buf \o SubSeq(b, 1, i)

\* interceptedResponse.Write: the buffer mirrors b when the wrapped writer
\* took all of it without error
CaptureWrite(buf, b, i, err) == IF i = Len(b) /\ ~err THEN buf \o b ELSE buf

\* c.Writer.Write(b): through every interceptedResponse wrapper down to gin's
\* writer; each wrapper sees the same (n, err)
WriterWrite(o, by, b, res) ==
    LET o1 == GinWrite(o, by, b, res)
    IN [o1 EXCEPT !.capture =
            [j \in DOMAIN o.capture |-> CaptureWrite(o.capture[j], b, res.n, res.err)]]

\* bytes.Buffer.Bytes() of a buffer created by new(bytes.Buffer)
BufferBytes(buf) == IF Len(buf) = 0 THEN NilBytes ELSE Bytes(buf)

\* interceptedResponse.Response()
InterceptedResponse(o, ir) ==
    NewResponseWithHeader(o.w.status, BufferBytes(o.capture[ir]), o.w.header)

\* gin: bodyAllowedForStatus, false for 1xx, 204 No Content, 304 Not Modified
BodyAllowedForStatus(status) ==
    ~ \/ (status >= 100 /\ status <= 199)
      \/ status = 204
      \/ status = 304

\* http.Header.Get
HeaderGet(h, k) == IF Len(h[k]) = 0 THEN "" ELSE h[k][1]

NoticeError(o, origin, kind, detail) ==
    [o EXCEPT !.notices = Append(@, [origin |-> origin, kind |-> kind, detail |-> detail])]

\* c.Render(code, &renderer{b, ct})
GinRender(o, by, code, b, ct, res) ==
    LET o1 == GinStatus(o, code)
    IN IF ~BodyAllowedForStatus(code)
       THEN WriteHeaderNow(
                IF ct # ""
                THEN [o1 EXCEPT !.w.header["Content-Type"] = <<ct>>]
                ELSE o1)
       ELSE LET o2 == WriterWrite(o1, by, b, res)
            IN IF res.err THEN [o2 EXCEPT !.index = Abort(o2.index)] ELSE o2

\* render(c, resp)
Render(o, by, resp, res) ==
    LET o1 == GinStatus(o, resp.Status)
        o2 == [o1 EXCEPT !.w.header =
                  [k \in HeaderKeys |->
                      IF Len(resp.Headers[k]) > 0 THEN resp.Headers[k] ELSE @[k]]]
    IN IF ~resp.Body.nil
       THEN GinRender(o2, by, resp.Status, resp.Body.b,
                      HeaderGet(resp.Headers, "Content-Type"), res)
       ELSE o2

\* does render(c, resp) reach the sink's Write?
RenderWrites(resp) == ~resp.Body.nil /\ BodyAllowedForStatus(resp.Status)

\* stringsEqual of the gin adapter
stringsEqual(a, b) ==
    /\ Len(a) = Len(b)
    /\ \A i \in 1..Len(a) : a[i] \in Range(b)

\* NewInterceptor: "Apply any header changes from the interceptor"
Reconcile(declared, live) ==
    [k \in HeaderKeys |->
        IF Len(declared[k]) > 0 /\ ~stringsEqual(declared[k], live[k])
        THEN declared[k]
        ELSE live[k]]

\* bug variant: the interceptor's response is written although Next() ran
SwallowAlways(nextCalled) == TRUE

\* NewInterceptor: "If interceptor didn't call Next(), it swallowed the response"
ShouldSwallow(nextCalled) == ~nextCalled

\* bug variant: the short-circuit response loses its body
SwallowBodyNever(resp) == FALSE

\* NewInterceptor: the swallowed response's body is written when not empty
SwallowWritesBody(resp) == Len(resp.Body.b) > 0

\* bug variant: the panic of an interceptor is recovered but not reported
RecoverSilently(o, v) == o

\* bug variant: the recovered panic is answered with a 500 and ends the chain
RecoverWithResponse(o, v) ==
    LET o1 == GinStatus(o, StatusInternalServerError)
    IN [o1 EXCEPT !.index = Abort(o1.index),
                  !.notices = Append(@, [origin |-> "gin_middleware",
                                         kind |-> "panic", detail |-> v])]

\* recoverInterceptorResp: the recovered panic is reported, nothing else
recoverInterceptorResp(o, v) == NoticeError(o, "gin_middleware", "panic", v)

\* bug variant: the recovered panic is answered with the fault text only
PanicResponseText(v) ==
    NewResponse(StatusOK, Bytes(<<v>>))

\* recoverHandlerResp with the response factory of NewHandlerJSON
PanicResponse(v) ==
    NewJSONResponseFromError(NewResponseError(StatusInternalServerError, <<Errorf(v)>>))

\* recoverHandlerResp with the response factory of NewHandlerRaw:
\* web.NewResponse(re.StatusCode(), []byte(re.Error()))
PanicResponseRaw(v) ==
    LET re == NewResponseError(StatusInternalServerError, <<Errorf(v)>>)
    IN NewResponse(re.Status, Bytes(<<Error(re)>>))

(***************************************************************************)
(* Inputs of an exchange: what the application's interceptors and handler  *)
(* may do.                                                                 *)
(***************************************************************************)
TraceHeader(vs) == [NoHeaders EXCEPT !["X-Trace"] = vs]

HandlerResponses ==
    {NewResponseWithHeader(StatusOK, Bytes(<<"h1", "h2">>), TraceHeader(<<"a", "b">>)),
     NewResponseWithHeader(StatusNoContent, Bytes(<<"h1", "h2">>), NoHeaders),
     NewResponseWithHeader(StatusNoContent, NilBytes, NoHeaders)}

InterceptorResponses ==
    {NewResponseWithHeader(StatusNotFound, Bytes(<<"i1", "i2">>), TraceHeader(<<"a", "a">>)),
     NewResponseWithHeader(StatusNotFound, NilBytes, TraceHeader(<<"b", "a">>)),
     NewResponseWithHeader(StatusNotFound, NilBytes, NoHeaders)}

PanicValues == {"boom"}

\* raw tells that the route's handler was made by NewHandlerRaw
HandlerOutcomes ==
    {[kind |-> "ret", resp |-> r, v |-> "", raw |-> FALSE] : r \in HandlerResponses}
        \cup {[kind |-> "panic", resp |-> ZeroResponse, v |-> v, raw |-> FALSE] :
                 v \in PanicValues}
NoOutcome == [kind |-> "none", resp |-> ZeroResponse, v |-> "", raw |-> FALSE]

\* context.Context values: tag names who made it (-1: the transport), ir is
\* the interceptedResponse stored under interceptedResponseKey (0: none)
BaseContext == [tag |-> -1, ir |-> 0]

\* bug variant: the capture is stored in a context of its own
WithCaptureDetached(ctx, ir) == [tag |-> -1, ir |-> ir]

\* context.WithValue(c.Request.Context(), interceptedResponseKey{}, ir): a
\* child of ctx, it has the values of ctx
WithCapture(ctx, ir) == [ctx EXCEPT !.ir = ir]

\* ctx is the tag of the context fn got from req.Context() when it started
LoopFrame ==
    [k |-> "loop", i |-> -1, ir |-> 0, nextCalled |-> FALSE,
     seen |-> ZeroResponse, applies |-> 0, ctx |-> -1]
InterceptorFrame(i, ir, ctx) ==
    [k |-> "icp", i |-> i, ir |-> ir, nextCalled |-> FALSE,
     seen |-> ZeroResponse, applies |-> 0, ctx |-> ctx]

Top == stack[Len(stack)]
Pop(st) == SubSeq(st, 1, Len(st) - 1)
SetTop(st, f) == [st EXCEPT ![Len(st)] = f]

NoSwallow == [by |-> -1, resp |-> ZeroResponse]
NoReturn == [by |-> -1, resp |-> ZeroResponse, nextCalled |-> FALSE]

ChainInit ==
    /\ phase = "idle"
    /\ index = -1
    /\ stack = <<>>
    /\ reqCtx = BaseContext
    /\ capture = <<>>
    /\ w = [status |-> StatusOK, written |-> FALSE, header |-> NoHeaders]
    /\ sink = [status |-> 0, header |-> NoHeaders, body |-> <<>>]
    /\ writes = <<>>
    /\ notices = <<>>
    /\ renders = 0
    /\ links = [i \in 0..(n - 1) |->
                    [outcome |-> "none", nextCalled |-> FALSE, applied |-> FALSE]]
    /\ calls = [i \in 0..n |-> 0]
    /\ handlerOut = NoOutcome
    /\ swallowed = NoSwallow
    /\ lastReturn = NoReturn
    /\ crashed = FALSE
    /\ repeats = 0
    /\ recovered = 0

EhIdle ==
    /\ ehMappers = <<>>
    /\ ehErr = ErrTodoNotFound
    /\ ehDef = StatusInternalServerError
    /\ ehResult = [op |-> "none", status |-> 0, causes |-> <<>>]

JsonIdle ==
    /\ jsErr = NewResponseError(0, <<>>)
    /\ jsVal = [kind |-> "nil"]
    /\ jsResult = [op |-> "none"]

EqualIdle ==
    /\ eqA = ZeroResponse
    /\ eqB = ZeroResponse
    /\ eqResult = {}

ConcIdle ==
    /\ ccMappers = <<>>
    /\ ccErr = <<>>
    /\ ccPos = <<>>
    /\ ccStatus = <<>>
    /\ ccTarget = <<>>
    /\ ccWriters = <<>>

ApiIdle ==
    /\ apiReq = [op |-> "none"]
    /\ apiOut = [op |-> "none"]
    /\ dbRows = <<>>

PureIdle == JsonIdle /\ EqualIdle /\ ConcIdle /\ ApiIdle

Init ==
    /\ n \in 0..MaxInterceptors
    /\ ChainInit
    /\ EhIdle
    /\ PureIdle

SetOut(o) ==
    /\ w' = o.w
    /\ sink' = o.sink
    /\ capture' = o.capture
    /\ writes' = o.writes
    /\ notices' = o.notices

(***************************************************************************)
(* The engine starts the exchange: c.reset(); c.Next().  handlers[0] is     *)
(* gin.Recovery(), which defers its recovery and calls c.Next(): the frame *)
(* at the bottom of the stack is the loop of that call.                    *)
(***************************************************************************)
Serve ==
    /\ phase = "idle"
    /\ phase' = "serving"
    /\ index' = Int8Inc(Int8Inc(index))
    /\ stack' = <<LoopFrame>>
    /\ UNCHANGED <<n, reqCtx, capture, w, sink, writes, notices, renders, links,
                   calls, handlerOut, swallowed, lastReturn, crashed, repeats, recovered, libVars>>

(***************************************************************************)
(* gin Next loop reaches handlers[index], an interceptor: the middleware   *)
(* returned by NewInterceptor starts (wrapping of the writer, creation of  *)
(* the intercepted request) and calls fn.                                  *)
(***************************************************************************)
InvokeInterceptor ==
    /\ phase = "serving"
    /\ Top.k = "loop"
    /\ index >= FirstLink /\ index < FirstLink + n
    /\ LET i == index - FirstLink
           reuse == reqCtx.ir # 0
           ir == IF reuse THEN reqCtx.ir ELSE Len(capture) + 1
           ctx == IF reuse THEN reqCtx ELSE WithCapture(reqCtx, ir)
       IN /\ capture' = IF reuse THEN capture ELSE Append(capture, <<>>)
          /\ reqCtx' = ctx
          /\ stack' = Append(stack, InterceptorFrame(i, ir, ctx.tag))
          /\ links' = [links EXCEPT ![i].outcome = "running"]
          /\ calls' = [calls EXCEPT ![i] = @ + 1]
    /\ UNCHANGED <<n, phase, index, w, sink, writes, notices, renders, handlerOut,
                   swallowed, lastReturn, crashed, repeats, recovered, libVars>>

(***************************************************************************)
(* gin Next loop reaches the handler of the route, the last of handlers:   *)
(* it runs to its end (do, render, recoverHandlerResp).  A handler made by *)
(* NewHandlerJSON answers a panic of fn with the JSON error, one made by   *)
(* NewHandlerRaw with the text of the error.                               *)
(***************************************************************************)
HandlerRuns(raw) ==
    /\ handlerOut.kind # "none" => handlerOut.raw = raw
    /\ \E h \in HandlerOutcomes :
         LET resp == IF h.kind = "ret" THEN h.resp
                     ELSE IF raw THEN PanicResponseRaw(h.v)
                     ELSE PanicResponse(h.v)
         IN \E res \in (IF RenderWrites(resp) THEN SinkOutcomes(resp.Body.b) ELSE {NoWrite}) :
              LET o == Render(Out, n, resp, res)
              IN /\ handlerOut' = [h EXCEPT !.raw = raw]
                 /\ calls' = [calls EXCEPT ![n] = @ + 1]
                 /\ SetOut(o)
                 /\ index' = Int8Inc(o.index)
                 /\ renders' = renders + 1
    /\ UNCHANGED <<n, phase, stack, reqCtx, links, swallowed, lastReturn, crashed,
                   repeats, recovered, libVars>>

\* the handler returned by NewHandlerJSON
InvokeHandler ==
    /\ phase = "serving"
    /\ Top.k = "loop"
    /\ index = FirstLink + n
    /\ HandlerRuns(FALSE)

\* the handler returned by NewHandlerRaw
InvokeHandlerRaw ==
    /\ phase = "serving"
    /\ Top.k = "loop"
    /\ index = FirstLink + n
    /\ HandlerRuns(TRUE)

(***************************************************************************)
(* gin Next loop ends (index past the handlers): c.Next() returns.  When   *)
(* the caller is interceptedRequest.Next it returns r.Response() and the   *)
(* deferred function sets nextCalled.  When the caller is gin.Recovery()   *)
(* it returns to the loop that invoked it, which advances the index; for   *)
(* the loop of the engine the exchange is then over and the header is      *)
(* flushed (c.writermem.WriteHeaderNow()), unless the index wrapped: the   *)
(* loop of the engine then indexes handlers with -128 and panics outside   *)
(* gin.Recovery(), the header is not flushed and the panic is left to      *)
(* net/http.                                                               *)
(***************************************************************************)
NextReturns ==
    /\ phase = "serving"
    /\ Top.k = "loop"
    /\ index > FirstLink + n
    /\ IF Len(stack) = 1
       THEN /\ stack' = <<>>
            /\ index' = Int8Inc(index)
            /\ IF Int8Inc(index) < 0
               THEN /\ phase' = "panicked"
                    /\ UNCHANGED <<w, sink>>
               ELSE /\ phase' = "done"
                    /\ w' = WriteHeaderNow(Out).w
                    /\ sink' = WriteHeaderNow(Out).sink
       ELSE LET f == stack[Len(stack) - 1]
                g == [f EXCEPT !.nextCalled = TRUE,
                               !.seen = InterceptedResponse(Out, f.ir)]
            IN IF f.k = "icp"
               THEN /\ stack' = SetTop(Pop(stack), g)
                    /\ UNCHANGED <<phase, index, w, sink>>
               ELSE /\ stack' = Pop(stack)
                    /\ index' = Int8Inc(index)
                    /\ UNCHANGED <<phase, w, sink>>
    /\ UNCHANGED <<n, reqCtx, capture, writes, notices, renders, links, calls,
                   handlerOut, swallowed, lastReturn, crashed, repeats, recovered, libVars>>

(***************************************************************************)
(* Steps of the interceptor function fn that is running.                   *)
(***************************************************************************)
\* fn called Apply and has not come back from a Next() since
AppliedBeforeNext(f) == f.applies = 1 /\ ~f.nextCalled

\* request.Context(): the context of c.Request, read when it is called
Context == reqCtx.tag

\* bug variant: Apply changes a copy of the request, the shared one is kept
ApplyToCopy(ctx, who, derived) == ctx

\* r.ctx.Request = r.ctx.Request.WithContext(ctx), ctx made by link who: the
\* request of the shared gin context is replaced.  A context derived from
\* the current one (ctx) keeps its values, another one has none.
Apply(ctx, who, derived) == [tag |-> who, ir |-> IF derived THEN ctx.ir ELSE 0]

\* request.Apply(ctx): ctx derived from the request's context, or not.
\* Consecutive Apply calls leave only the last context and a repeated Next()
\* runs no link, so fn applies at most once before its first Next() and at
\* most once after it.
InterceptorApply ==
    /\ phase = "serving"
    /\ Top.k = "icp"
    /\ Top.applies < (IF Top.nextCalled THEN 2 ELSE 1)
    /\ \E derived \in BOOLEAN :
         reqCtx' = Apply(reqCtx, Top.i, derived)
    /\ stack' = SetTop(stack, [Top EXCEPT !.applies = IF Top.nextCalled THEN 2 ELSE 1])
    /\ UNCHANGED <<n, phase, index, capture, w, sink, writes, notices, renders, links,
                   calls, handlerOut, swallowed, lastReturn, crashed, repeats, recovered, libVars>>

\* interceptedRequest.Next(): r.ctx.Next()
InterceptorNext ==
    /\ phase = "serving"
    /\ Top.k = "icp"
    /\ Top.nextCalled => repeats < MaxRepeats
    /\ repeats' = IF Top.nextCalled THEN repeats + 1 ELSE repeats
    /\ index' = Int8Inc(index)
    /\ stack' = Append(stack, LoopFrame)
    /\ UNCHANGED <<n, phase, reqCtx, capture, w, sink, writes, notices, renders, links,
                   calls, handlerOut, swallowed, lastReturn, crashed, recovered,
                   libVars>>

\* fn panics: the deferred recoverInterceptorResp runs, the middleware
\* returns to gin's loop
InterceptorPanics ==
    /\ phase = "serving"
    /\ Top.k = "icp"
    /\ \E v \in PanicValues :
         LET o == recoverInterceptorResp(Out, v)
         IN /\ SetOut(o)
            /\ index' = Int8Inc(o.index)
    /\ links' = [links EXCEPT ![Top.i] =
                    [outcome |-> "panicked", nextCalled |-> Top.nextCalled,
                     applied |-> AppliedBeforeNext(Top)]]
    /\ stack' = Pop(stack)
    /\ UNCHANGED <<n, phase, reqCtx, renders, calls, handlerOut, swallowed, lastReturn,
                   crashed, repeats, recovered, libVars>>

\* the Responses fn may return: its own, or the one Next() gave it
Returnable(f) == InterceptorResponses \cup (IF f.nextCalled THEN {f.seen} ELSE {})

\* bug variant: the headers of resp are set before the swallow branch writes
AfterInterceptorHeadersFirst(o, f, resp, res) ==
    LET o1 == [o EXCEPT !.w.header = Reconcile(resp.Headers, o.w.header)]
    IN IF ShouldSwallow(f.nextCalled)
       THEN LET s1 == GinStatus(o1, resp.Status)
                s2 == IF SwallowWritesBody(resp)
                      THEN LET s3 == WriterWrite(s1, f.i, resp.Body.b, res)
                           IN IF res.err
                              THEN NoticeError(s3, "gin_middleware", "write", "")
                              ELSE s3
                      ELSE s1
            IN [s2 EXCEPT !.index = Abort(s2.index)]
       ELSE o1

\* NewInterceptor after fn returned resp: the swallow branch and the header
\* changes
AfterInterceptor(o, f, resp, res) ==
    LET o1 == IF ShouldSwallow(f.nextCalled)
              THEN LET s1 == GinStatus(o, resp.Status)
                       s2 == IF SwallowWritesBody(resp)
                             THEN LET s3 == WriterWrite(s1, f.i, resp.Body.b, res)
                                  IN IF res.err
                                     THEN NoticeError(s3, "gin_middleware", "write", "")
                                     ELSE s3
                             ELSE s1
                   IN [s2 EXCEPT !.index = Abort(s2.index)]
              ELSE o
    IN [o1 EXCEPT !.w.header = Reconcile(resp.Headers, o1.w.header)]

InterceptorReturns ==
    /\ phase = "serving"
    /\ Top.k = "icp"
    /\ \E resp \in Returnable(Top) :
         \E res \in (IF ShouldSwallow(Top.nextCalled) /\ SwallowWritesBody(resp)
                     THEN SinkOutcomes(resp.Body.b) ELSE {NoWrite}) :
           LET o == AfterInterceptor(Out, Top, resp, res)
           IN /\ SetOut(o)
              /\ index' = Int8Inc(o.index)
              /\ swallowed' = IF Top.nextCalled THEN swallowed
                              ELSE [by |-> Top.i, resp |-> resp]
              /\ lastReturn' = [by |-> Top.i, resp |-> resp,
                                nextCalled |-> Top.nextCalled]
    /\ links' = [links EXCEPT ![Top.i] =
                    [outcome |-> "returned", nextCalled |-> Top.nextCalled,
                     applied |-> FALSE]]
    /\ stack' = Pop(stack)
    /\ UNCHANGED <<n, phase, reqCtx, renders, calls, handlerOut, crashed, repeats, recovered, libVars>>

Next ==
    \/ Serve
    \/ InvokeInterceptor
    \/ InvokeHandler
    \/ NextReturns
    \/ InterceptorApply
    \/ InterceptorNext
    \/ InterceptorPanics
    \/ InterceptorReturns

Spec == Init /\ [][Next]_vars

(***************************************************************************)
(* Exchanges in which the first interceptor of the chain keeps calling     *)
(* Next() after its first Next() returned, any number of times.  gin's     *)
(* index is an int8: it is advanced by every Next() call and by every      *)
(* turn of the loop, so it passes from 127 to -128, where handlers[index]  *)
(* panics with "index out of range", and comes back to 0, where            *)
(* gin.Recovery() is invoked again.  The route's handler is one made by    *)
(* NewHandlerJSON or one made by NewHandlerRaw.                            *)
(***************************************************************************)
InitWrap ==
    /\ n \in 0..MaxWrapLinks
    /\ ChainInit
    /\ EhIdle
    /\ PureIdle

\* bug variant: Next() called again runs the handler of the route again
\* (c.Handler()(c) in the place of c.Next())
InterceptorNextAgainRunsHandler ==
    /\ phase = "serving"
    /\ Top.k = "icp"
    /\ Top.nextCalled
    /\ Len(stack) = 2
    /\ \A i \in 0..n : calls[i] <= 1
    /\ repeats' = repeats + 1
    /\ index' = FirstLink + n
    /\ stack' = Append(stack, LoopFrame)
    /\ UNCHANGED <<n, phase, reqCtx, capture, w, sink, writes, notices, renders, links,
                   calls, handlerOut, swallowed, lastReturn, crashed, recovered,
                   libVars>>

\* interceptedRequest.Next() called again by the first interceptor, until a
\* link has been invoked for the second time
InterceptorNextAgain ==
    /\ phase = "serving"
    /\ Top.k = "icp"
    /\ Top.nextCalled
    /\ Len(stack) = 2
    /\ \A i \in 0..n : calls[i] <= 1
    /\ repeats' = repeats + 1
    /\ index' = Int8Inc(index)
    /\ stack' = Append(stack, LoopFrame)
    /\ UNCHANGED <<n, phase, reqCtx, capture, w, sink, writes, notices, renders, links,
                   calls, handlerOut, swallowed, lastReturn, crashed, recovered,
                   libVars>>

\* the loop of c.Next() called by fn indexes handlers with a negative
\* index: the panic leaves c.Next(), interceptedRequest.Next sets nextCalled
\* on the way, and fn recovers it
NextPanicRecovered ==
    /\ phase = "serving"
    /\ Top.k = "loop"
    /\ index < 0
    /\ Len(stack) > 1
    /\ stack[Len(stack) - 1].k = "icp"
    /\ recovered' = recovered + 1
    /\ stack' = SetTop(Pop(stack), [stack[Len(stack) - 1] EXCEPT !.nextCalled = TRUE])
    /\ UNCHANGED <<n, phase, index, reqCtx, capture, w, sink, writes, notices, renders,
                   links, calls, handlerOut, swallowed, lastReturn, crashed, repeats,
                   libVars>>

\* the same panic, not recovered by fn: recoverInterceptorResp reports it
\* and the middleware returns to the loop that called it
NextPanicEscapes ==
    /\ phase = "serving"
    /\ Top.k = "loop"
    /\ index < 0
    /\ Len(stack) > 1
    /\ stack[Len(stack) - 1].k = "icp"
    /\ LET f == stack[Len(stack) - 1]
           o == recoverInterceptorResp(Out, "index out of range")
       IN /\ SetOut(o)
          /\ index' = Int8Inc(o.index)
          /\ links' = [links EXCEPT ![f.i] =
                          [outcome |-> "panicked", nextCalled |-> TRUE,
                           applied |-> FALSE]]
    /\ stack' = Pop(Pop(stack))
    /\ UNCHANGED <<n, phase, reqCtx, renders, calls, handlerOut, swallowed, lastReturn,
                   crashed, repeats, recovered, libVars>>

\* a loop reaches handlers[0] again: gin.Recovery() calls c.Next()
InvokeRecovery ==
    /\ phase = "serving"
    /\ Top.k = "loop"
    /\ index = 0
    /\ index' = Int8Inc(index)
    /\ stack' = Append(stack, LoopFrame)
    /\ UNCHANGED <<n, phase, reqCtx, capture, w, sink, writes, notices, renders, links,
                   calls, handlerOut, swallowed, lastReturn, crashed, repeats, recovered, libVars>>

\* the loop of the c.Next() called by gin.Recovery() indexes handlers with
\* a negative index: the deferred function of Recovery recovers the panic
\* and calls c.AbortWithStatus(500), that is c.Status, WriteHeaderNow and
\* c.Abort(); Recovery returns to the loop that invoked it, which advances
\* the index and, for the loop of the engine, ends the exchange
RecoveryRecovers ==
    /\ phase = "serving"
    /\ Top.k = "loop"
    /\ index < 0
    /\ Len(stack) > 1 => stack[Len(stack) - 1].k = "loop"
    /\ LET o == WriteHeaderNow(GinStatus(Out, StatusInternalServerError))
       IN /\ w' = o.w
          /\ sink' = o.sink
          /\ index' = Int8Inc(Abort(o.index))
    /\ crashed' = TRUE
    /\ stack' = Pop(stack)
    /\ phase' = IF Len(stack) = 1 THEN "done" ELSE phase
    /\ UNCHANGED <<n, reqCtx, capture, writes, notices, renders, links, calls,
                   handlerOut, swallowed, lastReturn, repeats, recovered, libVars>>

NextWrap ==
    \/ Serve
    \/ InvokeInterceptor
    \/ InvokeHandler
    \/ InvokeHandlerRaw
    \/ NextReturns
    \/ InterceptorNext
    \/ InterceptorNextAgain
    \/ InvokeRecovery
    \/ NextPanicRecovered
    \/ NextPanicEscapes
    \/ RecoveryRecovers
    \/ InterceptorPanics
    \/ InterceptorReturns

SpecWrap == InitWrap /\ [][NextWrap]_vars

(***************************************************************************)
(* The ErrorHandler called on its own: the mappers, the error and the      *)
(* default are drawn in the initial state, one call is made.               *)
(***************************************************************************)
Mappers ==
    {NewErrorHandlerValueMapper(ErrTodoNotFound, StatusBadRequest),
     NewErrorHandlerValueMapper(ErrTodoNotFound, StatusNotFound),
     NewErrorHandlerValueMapper(ErrInvalidStatus, StatusBadRequest),
     NewErrorHandlerTypeMapper(ValidationError(""), StatusBadRequest),
     NewErrorHandlerTypeMapper(CustomError(""), StatusNotFound)}

SeqsUpTo(S, k) == UNION {[1..m -> S] : m \in 0..k}

Defaults == {StatusInternalServerError, StatusBadRequest}

InitErr ==
    /\ n = 0
    /\ ChainInit
    /\ ehMappers \in SeqsUpTo(Mappers, MaxMappers)
    /\ ehErr \in Errors
    /\ ehDef \in Defaults
    /\ ehResult = [op |-> "none", status |-> 0, causes |-> <<>>]
    /\ PureIdle

EhHandler == NewErrorHandler(ehMappers)

EhHandleStatusWithDefault ==
    /\ ehResult.op = "none"
    /\ ehResult' = [op |-> "HandleStatusWithDefault",
                    status |-> HandleStatusWithDefault(EhHandler, ehErr, ehDef),
                    causes |-> <<>>]
    /\ UNCHANGED <<chainVars, ehMappers, ehErr, ehDef, pureVars>>

EhHandleStatus ==
    /\ ehResult.op = "none"
    /\ ehResult' = [op |-> "HandleStatus",
                    status |-> HandleStatus(EhHandler, ehErr),
                    causes |-> <<>>]
    /\ UNCHANGED <<chainVars, ehMappers, ehErr, ehDef, pureVars>>

EhHandle ==
    /\ ehResult.op = "none"
    /\ LET re == Handle(EhHandler, ehErr)
       IN ehResult' = [op |-> "Handle", status |-> re.Status, causes |-> re.Causes]
    /\ UNCHANGED <<chainVars, ehMappers, ehErr, ehDef, pureVars>>

EhHandleWithDefault ==
    /\ ehResult.op = "none"
    /\ LET re == HandleWithDefault(EhHandler, ehErr, ehDef)
       IN ehResult' = [op |-> "HandleWithDefault", status |-> re.Status,
                       causes |-> re.Causes]
    /\ UNCHANGED <<chainVars, ehMappers, ehErr, ehDef, pureVars>>

\* one mapper of the handler called on its own: sc, ok := m(err)
EhMapper ==
    /\ ehResult.op = "none"
    /\ \E m \in 1..Len(ehMappers) :
          LET r == ApplyMapper(ehMappers[m], ehErr)
          IN ehResult' = [op |-> "Mapper", status |-> r.sc, causes |-> <<>>,
                          m |-> m, ok |-> r.ok]
    /\ UNCHANGED <<chainVars, ehMappers, ehErr, ehDef, pureVars>>

NextErr ==
    \/ EhHandleStatusWithDefault
    \/ EhHandleStatus
    \/ EhHandle
    \/ EhHandleWithDefault
    \/ EhMapper

SpecErr == InitErr /\ [][NextErr]_vars

(***************************************************************************)
(* The JSON helpers called on their own: a ResponseError and a value for   *)
(* NewJSONResponse are drawn in the initial state, one call is made.       *)
(***************************************************************************)
JsonCauses == {NewError("A"), NewError("B"), NewError("C"), Wrap(ErrTodoNotFound)}

ResponseErrors ==
    {NewResponseError(st, cs) :
        st \in {StatusBadRequest, StatusNotFound, StatusInternalServerError},
        cs \in SeqsUpTo(JsonCauses, MaxCauses)}

JsonValues ==
    {NilValue,
     StringValue(<<>>), StringValue(<<"s1", "s2">>),
     BytesValue(NilBytes), BytesValue(Bytes(<<>>)), BytesValue(Bytes(<<"b1", "b2">>)),
     [kind |-> "int", k |-> 42],
     [kind |-> "strings", ss |-> <<"x", "y">>],
     [kind |-> "float", f |-> "+Inf"]}

InitJSON ==
    /\ n = 0
    /\ ChainInit
    /\ EhIdle
    /\ ApiIdle
    /\ EqualIdle
    /\ ConcIdle
    /\ jsErr \in ResponseErrors
    /\ jsVal \in [sc : {StatusOK, StatusNoContent}, b : JsonValues]
    /\ jsResult = [op |-> "none"]

JsMarshalJSON ==
    /\ jsResult.op = "none"
    /\ jsResult' = [op |-> "MarshalJSON", out |-> MarshalJSON(jsErr)]
    /\ UNCHANGED <<chainVars, ehVars, apiVars, jsErr, jsVal, equalVars, concVars>>

JsNewJSONResponseFromError ==
    /\ jsResult.op = "none"
    /\ jsResult' = [op |-> "NewJSONResponseFromError",
                    resp |-> NewJSONResponseFromError(jsErr)]
    /\ UNCHANGED <<chainVars, ehVars, apiVars, jsErr, jsVal, equalVars, concVars>>

JsError ==
    /\ jsResult.op = "none"
    /\ jsResult' = [op |-> "Error", out |-> Error(jsErr)]
    /\ UNCHANGED <<chainVars, ehVars, apiVars, jsErr, jsVal, equalVars, concVars>>

JsNewJSONResponse ==
    /\ jsResult.op = "none"
    /\ jsResult' = [op |-> "NewJSONResponse",
                    resp |-> NewJSONResponse(jsVal.sc, jsVal.b)]
    /\ UNCHANGED <<chainVars, ehVars, apiVars, jsErr, jsVal, equalVars, concVars>>

NextJSON ==
    \/ JsMarshalJSON
    \/ JsNewJSONResponseFromError
    \/ JsError
    \/ JsNewJSONResponse

SpecJSON == InitJSON /\ [][NextJSON]_vars

(***************************************************************************)
(* Response.Equal called on its own: two Responses a and b are drawn in    *)
(* the initial state; a.Equal(b), b.Equal(a) and a.Equal(a) are called.    *)
(***************************************************************************)
HeaderValues == {"a", "b"}

\* the http.Header values of the Responses compared
HeaderMaps ==
    LET traces == SeqsUpTo(HeaderValues, MaxValues)
        ct == [k \in {"Content-Type"} |-> <<"application/json">>]
    IN {<<>>, ct}
        \cup {[k \in {"X-Trace"} |-> vs] : vs \in traces}
        \cup {[k \in HeaderKeys |->
                 IF k = "X-Trace" THEN vs ELSE <<"application/json">>] : vs \in traces}

EqualResponses ==
    {NewResponseWithHeader(sc, b, h) :
        sc \in {StatusOK, StatusNotFound},
        b \in {NilBytes, Bytes(<<>>), Bytes(<<"x">>)},
        h \in HeaderMaps}

InitEqual ==
    /\ n = 0
    /\ ChainInit
    /\ EhIdle
    /\ ApiIdle
    /\ JsonIdle
    /\ ConcIdle
    /\ eqA \in EqualResponses
    /\ eqB \in EqualResponses
    /\ eqResult = {}

EqOperand(name) == IF name = "a" THEN eqA ELSE eqB

\* r.Equal(v)
EqEqual ==
    /\ \E call \in {<<"a", "b">>, <<"b", "a">>, <<"a", "a">>} :
          /\ \A c \in eqResult : <<c.r, c.v>> # call
          /\ eqResult' = eqResult \cup
                {[r |-> call[1], v |-> call[2],
                  eq |-> Equal(EqOperand(call[1]), EqOperand(call[2]))]}
    /\ UNCHANGED <<chainVars, ehVars, apiVars, jsonVars, eqA, eqB, concVars>>

NextEqual == EqEqual

SpecEqual == InitEqual /\ [][NextEqual]_vars

(***************************************************************************)
(* Two exchanges call HandleStatusWithDefault concurrently on one          *)
(* ErrorHandler.  The closure of a type mapper holds one target, made when *)
(* the mapper was built; errors.As assigns the matching error to it.  The  *)
(* assignment is not atomic: it begins and it ends, and two assignments    *)
(* to one target that overlap are a data race, after which the target      *)
(* holds either value or a mix of the two.                                 *)
(***************************************************************************)
Exchanges == {1, 2}

ConcMappers ==
    {NewErrorHandlerValueMapper(ErrTodoNotFound, StatusNotFound),
     NewErrorHandlerTypeMapper(ValidationError(""), StatusBadRequest),
     NewErrorHandlerTypeMapper(CustomError(""), StatusNotFound)}

ConcErrors ==
    {ErrTodoNotFound, ValidationError("title"), Wrap(ValidationError("name")),
     CustomError("c1")}

TornValue == [type |-> "torn", id |-> "", inner |-> <<>>]

InitConc ==
    /\ n = 0
    /\ ChainInit
    /\ EhIdle
    /\ ApiIdle
    /\ JsonIdle
    /\ EqualIdle
    /\ ccMappers \in SeqsUpTo(ConcMappers, MaxMappers)
    /\ ccErr \in [Exchanges ->
                    [err : ConcErrors, def : {StatusInternalServerError}]]
    /\ ccPos = [e \in Exchanges |-> 0]
    /\ ccStatus = [e \in Exchanges |-> 0]
    /\ ccTarget = [m \in 1..Len(ccMappers) |-> <<>>]
    /\ ccWriters = [m \in 1..Len(ccMappers) |-> [x \in {} |-> {}]]

\* status := def
CcStart(e) ==
    /\ ccPos[e] = 0
    /\ ccPos' = [ccPos EXCEPT ![e] = 1]
    /\ ccStatus' = [ccStatus EXCEPT ![e] = ccErr[e].def]
    /\ UNCHANGED <<chainVars, ehVars, apiVars, jsonVars, equalVars>>
    /\ UNCHANGED <<ccMappers, ccErr, ccTarget, ccWriters>>

\* the mapper the exchange is at
CcAt(e) == ccMappers[ccPos[e]]
CcInLoop(e) == ccPos[e] \in 1..Len(ccMappers)

\* m(err) of a value mapper: errors.Is reads the error and the sentinel
CcValueMapper(e) ==
    /\ CcInLoop(e)
    /\ CcAt(e).kind = "value"
    /\ LET r == ApplyMapper(CcAt(e), ccErr[e].err)
       IN ccStatus' = [ccStatus EXCEPT ![e] = IF r.ok THEN r.sc ELSE @]
    /\ ccPos' = [ccPos EXCEPT ![e] = @ + 1]
    /\ UNCHANGED <<chainVars, ehVars, apiVars, jsonVars, equalVars>>
    /\ UNCHANGED <<ccMappers, ccErr, ccTarget, ccWriters>>

\* m(err) of a type mapper when no error of the tree has the type
CcTypeMapperMiss(e) ==
    /\ CcInLoop(e)
    /\ CcAt(e).kind = "type"
    /\ e \notin DOMAIN ccWriters[ccPos[e]]
    /\ FindAs(ccErr[e].err, CcAt(e).v.type) = <<>>
    /\ ccPos' = [ccPos EXCEPT ![e] = @ + 1]
    /\ UNCHANGED <<chainVars, ehVars, apiVars, jsonVars, equalVars>>
    /\ UNCHANGED <<ccMappers, ccErr, ccStatus, ccTarget, ccWriters>>

\* m(err) of a type mapper, errors.As found the error: the assignment to
\* target begins
CcTypeMapperAssign(e) ==
    /\ CcInLoop(e)
    /\ CcAt(e).kind = "type"
    /\ e \notin DOMAIN ccWriters[ccPos[e]]
    /\ FindAs(ccErr[e].err, CcAt(e).v.type) # <<>>
    /\ LET inside == DOMAIN ccWriters[ccPos[e]]
       IN ccWriters' =
              [ccWriters EXCEPT ![ccPos[e]] =
                  [x \in inside \cup {e} |-> IF x = e THEN inside ELSE @[x] \cup {e}]]
    /\ UNCHANGED <<chainVars, ehVars, apiVars, jsonVars, equalVars>>
    /\ UNCHANGED <<ccMappers, ccErr, ccPos, ccStatus, ccTarget>>

\* the assignment ends, errors.As returns true and status = sc.  The words
\* of an assignment that overlapped another one are interleaved with the
\* other's in any order: the target is left with either value or a mix,
\* whichever of the two ends first
CcTypeMapperAssigned(e) ==
    /\ CcInLoop(e)
    /\ e \in DOMAIN ccWriters[ccPos[e]]
    /\ LET m == ccPos[e]
           mine == FindAs(ccErr[e].err, CcAt(e).v.type)
           others == ccWriters[m][e]
           outcomes ==
               {mine} \cup
               (IF others = {} THEN {}
                ELSE {<<TornValue>>} \cup
                     {FindAs(ccErr[o].err, CcAt(e).v.type) : o \in others})
       IN \E val \in outcomes : ccTarget' = [ccTarget EXCEPT ![m] = val]
    /\ ccWriters' = [ccWriters EXCEPT ![ccPos[e]] =
                        [x \in DOMAIN @ \ {e} |-> @[x]]]
    /\ ccStatus' = [ccStatus EXCEPT ![e] = CcAt(e).sc]
    /\ ccPos' = [ccPos EXCEPT ![e] = @ + 1]
    /\ UNCHANGED <<chainVars, ehVars, apiVars, jsonVars, equalVars>>
    /\ UNCHANGED <<ccMappers, ccErr>>

\* return status
CcReturn(e) ==
    /\ ccPos[e] = Len(ccMappers) + 1
    /\ ccPos' = [ccPos EXCEPT ![e] = @ + 1]
    /\ UNCHANGED <<chainVars, ehVars, apiVars, jsonVars, equalVars>>
    /\ UNCHANGED <<ccMappers, ccErr, ccStatus, ccTarget, ccWriters>>

CcReturned(e) == ccPos[e] = Len(ccMappers) + 2

NextConc ==
    \E e \in Exchanges :
        \/ CcStart(e)
        \/ CcValueMapper(e)
        \/ CcTypeMapperMiss(e)
        \/ CcTypeMapperAssign(e)
        \/ CcTypeMapperAssigned(e)
        \/ CcReturn(e)

SpecConc == InitConc /\ [][NextConc]_vars

(***************************************************************************)
(* The todo API called on its own.  SpecCtl: one request is handled by the *)
(* controller on a usecase whose service answers as the step chooses.      *)
(* SpecUc: one call of usecase.Create.  SpecSvc: one call of the service   *)
(* on a table of todos.                                                    *)
(***************************************************************************)
RECURSIVE Repeat(_, _)
Repeat(str, k) ==
    IF k = 0 THEN ""
    ELSE IF k % 2 = 0 THEN LET half == Repeat(str, k \div 2) IN half \o half
    ELSE str \o Repeat(str, k - 1)

ValidID ==
    <<"1", "2", "3", "e", "4", "5", "6", "7", "-", "e", "8", "9",
      "b", "-", "1", "2", "d", "3", "-", "a", "4", "5", "6", "-",
      "4", "2", "6", "6", "1", "4", "1", "7", "4", "0", "0", "0">>
\* nonExistentID: the id no row is stored under
OtherID ==
    <<"0", "0", "0", "0", "0", "0", "0", "0", "-", "0", "0", "0",
      "0", "-", "0", "0", "0", "0", "-", "0", "0", "0", "0", "-",
      "0", "0", "0", "0", "0", "0", "0", "0", "0", "0", "0", "0">>
\* ValidID as a client may write it, in upper case
UpperID ==
    <<"1", "2", "3", "E", "4", "5", "6", "7", "-", "E", "8", "9",
      "B", "-", "1", "2", "D", "3", "-", "A", "4", "5", "6", "-",
      "4", "2", "6", "6", "1", "4", "1", "7", "4", "0", "0", "0">>
ThirdID ==
    <<"f", "f", "f", "f", "f", "f", "f", "f", "-", "f", "f", "f",
      "f", "-", "f", "f", "f", "f", "-", "f", "f", "f", "f", "-",
      "f", "f", "f", "f", "f", "f", "f", "f", "f", "f", "f", "f">>
\* 36 characters, one of them not hexadecimal; a hyphen out of place; short
BadDigitID ==
    <<"1", "2", "3", "e", "4", "5", "6", "7", "-", "e", "8", "9",
      "b", "-", "1", "2", "d", "3", "-", "a", "4", "5", "6", "-",
      "4", "2", "6", "6", "1", "4", "1", "7", "4", "0", "0", "g">>
BadHyphenID ==
    <<"1", "2", "3", "e", "4", "5", "6", "7", "e", "-", "8", "9",
      "b", "-", "1", "2", "d", "3", "-", "a", "4", "5", "6", "-",
      "4", "2", "6", "6", "1", "4", "1", "7", "4", "0", "0", "0">>
ShortID == <<"a", "b", "c">>

IdParams == {Nil, <<ValidID>>, <<BadDigitID>>, <<BadHyphenID>>, <<ShortID>>}

TitleFields ==
    {JAbsent, JNull, JNumber, JString(""), JString("t"),
     JString(Repeat("t", MaxTitleLen)), JString(Repeat("t", MaxTitleLen + 1))}
DescriptionFields ==
    {JAbsent, JString("d"), JString(Repeat("d", MaxDescriptionLen)),
     JString(Repeat("d", MaxDescriptionLen + 1))}
StatusFields == {JAbsent, JString(StatusInProgress), JString("bogus")}
PriorityFields == {JAbsent, JString(PriorityHigh), JString("bogus")}

Bodies ==
    {NoBody, [NoBody EXCEPT !.kind = "malformed"], [NoBody EXCEPT !.kind = "null"]}
        \cup {[kind |-> "object", title |-> t, description |-> d,
               status |-> st, priority |-> pr] :
                 t \in TitleFields, d \in DescriptionFields,
                 st \in StatusFields, pr \in PriorityFields}

NoQuery == [status |-> Nil, priority |-> Nil]
Queries ==
    [status : {Nil, <<StatusCompleted>>, <<"bogus">>, <<"">>},
     priority : {Nil, <<PriorityLow>>, <<"bogus">>, <<"">>}]

Requests ==
    {[op |-> "Create", id |-> Nil, query |-> NoQuery, body |-> b] : b \in Bodies}
        \cup {[op |-> "Get", id |-> Nil, query |-> q, body |-> NoBody] : q \in Queries}
        \cup {[op |-> o, id |-> i, query |-> NoQuery, body |-> NoBody] :
                 o \in {"GetByID", "Delete"}, i \in IdParams}
        \cup {[op |-> "Update", id |-> i, query |-> NoQuery, body |-> b] :
                 i \in IdParams, b \in Bodies}

SomeTodo ==
    [ID |-> ValidID, Title |-> "t", Description |-> "d",
     Status |-> StatusPending, Priority |-> PriorityMedium,
     CreatedAt |-> "2024-01-01T00:00:00Z", UpdatedAt |-> "2024-01-02T00:00:00Z"]

\* what the service under the usecase answers
ServiceErrors ==
    {ErrTodoNotFound, Wrap(ErrTodoNotFound), NewError("database error"),
     ErrInvalidTitle, ErrInvalidID}
ServiceAnswers ==
    {[err |-> Nil, todo |-> SomeTodo, todos |-> ts] : ts \in {<<>>, <<SomeTodo>>}}
        \cup {[err |-> <<e>>, todo |-> ZeroTodo, todos |-> <<>>] : e \in ServiceErrors}
NoAnswer == [err |-> Nil, todo |-> ZeroTodo, todos |-> <<>>]

\* NewTodoController()
TodoController == [errHandler |-> newErrorHandler]

ApiRest == <<chainVars, ehVars, jsonVars, equalVars, concVars>>

InitCtl ==
    /\ n = 0
    /\ ChainInit
    /\ EhIdle
    /\ JsonIdle
    /\ EqualIdle
    /\ ConcIdle
    /\ apiReq \in Requests
    /\ apiOut = [op |-> "none"]
    /\ dbRows = <<>>

Handled(op, svc, r) ==
    /\ apiOut' = [op |-> op, resp |-> r.resp, calls |-> r.calls,
                  svc |-> IF r.calls = <<>> THEN NoAnswer ELSE svc]
    /\ UNCHANGED <<apiReq, dbRows, ApiRest>>

CtlCreate ==
    /\ apiOut.op = "none" /\ apiReq.op = "Create"
    /\ \E svc \in ServiceAnswers :
         Handled("Create", svc, ControllerCreate(TodoController, apiReq, svc))

CtlGet ==
    /\ apiOut.op = "none" /\ apiReq.op = "Get"
    /\ \E svc \in ServiceAnswers :
         Handled("Get", svc, ControllerGet(TodoController, apiReq, svc))

CtlGetByID ==
    /\ apiOut.op = "none" /\ apiReq.op = "GetByID"
    /\ \E svc \in ServiceAnswers :
         Handled("GetByID", svc, ControllerGetByID(TodoController, apiReq, svc))

CtlUpdate ==
    /\ apiOut.op = "none" /\ apiReq.op = "Update"
    /\ \E svc \in ServiceAnswers :
         Handled("Update", svc, ControllerUpdate(TodoController, apiReq, svc))

CtlDelete ==
    /\ apiOut.op = "none" /\ apiReq.op = "Delete"
    /\ \E svc \in ServiceAnswers :
         Handled("Delete", svc, ControllerDelete(TodoController, apiReq, svc))

NextCtl ==
    \/ CtlCreate
    \/ CtlGet
    \/ CtlGetByID
    \/ CtlUpdate
    \/ CtlDelete

SpecCtl == InitCtl /\ [][NextCtl]_vars

CreateInputs ==
    [Title : {"", "t"},
     Description : {Nil, <<"d">>},
     Status : {Nil, <<StatusPending>>, <<StatusCompleted>>, <<"bogus">>},
     Priority : {Nil, <<PriorityMedium>>, <<PriorityLow>>, <<"bogus">>}]

InitUc ==
    /\ n = 0
    /\ ChainInit
    /\ EhIdle
    /\ JsonIdle
    /\ EqualIdle
    /\ ConcIdle
    /\ apiReq \in {[op |-> "usecase.Create", in |-> i] : i \in CreateInputs}
    /\ apiOut = [op |-> "none"]
    /\ dbRows = <<>>

UcCreate ==
    /\ apiOut.op = "none" /\ apiReq.op = "usecase.Create"
    /\ \E svc \in ServiceAnswers :
         LET r == UsecaseCreate(apiReq.in, svc)
         IN apiOut' = [op |-> "usecase.Create", out |-> r.out, err |-> r.err,
                       calls |-> r.calls, svc |-> svc]
    /\ UNCHANGED <<apiReq, dbRows, ApiRest>>

NextUc == UcCreate

SpecUc == InitUc /\ [][NextUc]_vars

StoredIds == {ValidID, ThirdID}
AskedIds == StoredIds \cup {OtherID, UpperID}
Rows ==
    {[Title |-> "t", Description |-> Nil, Status |-> StatusPending,
      Priority |-> PriorityMedium, CreatedAt |-> "t0", UpdatedAt |-> "t0"],
     [Title |-> "u", Description |-> <<"d">>, Status |-> StatusCompleted,
      Priority |-> PriorityLow, CreatedAt |-> "t1", UpdatedAt |-> "t1"]}
Tables == UNION {[S -> Rows] : S \in SUBSET StoredIds}

UpdateInputs ==
    [Title : {Nil, <<"new">>}, Description : {Nil, <<"nd">>},
     Status : {Nil, <<StatusInProgress>>}, Priority : {Nil, <<PriorityHigh>>}]
NoUpdate == [Title |-> Nil, Description |-> Nil, Status |-> Nil, Priority |-> Nil]
ServiceCreateInputs ==
    [Title : {"new", Repeat("x", 101)}, Description : {Nil, <<"nd">>},
     Status : {StatusPending}, Priority : {PriorityMedium, PriorityHigh}]
ServiceFilters ==
    [Status : {Nil, <<StatusPending>>}, Priority : {Nil, <<PriorityLow>>}]

ServiceRequests ==
    {[op |-> o, id |-> i, in |-> NoUpdate] :
        o \in {"service.GetByID", "service.Delete"}, i \in AskedIds}
        \cup {[op |-> "service.Update", id |-> i, in |-> u] :
                 i \in AskedIds, u \in UpdateInputs}
        \cup {[op |-> "service.Create", id |-> Nil, in |-> c] : c \in ServiceCreateInputs}
        \cup {[op |-> "service.Get", id |-> Nil, in |-> f] : f \in ServiceFilters}

\* the driver's errors: of the statement, and of result.RowsAffected()
Faults ==
    [query : {Nil, <<NewError("database error")>>, <<Wrap(ErrNoRows)>>},
     affected : {Nil, <<NewError("no RowsAffected available")>>}]

\* the driver's errors while the rows of get_todos.sql are read
GetFaults ==
    [query : {Nil, <<NewError("database error")>>}, at : 0..1,
     scan : {Nil, <<NewError("sql: Scan error")>>},
     iter : {Nil, <<NewError("connection lost")>>}]

\* the orders a statement may give the ids of a table
Orders(rows) ==
    {o \in [1..Cardinality(DOMAIN rows) -> DOMAIN rows] :
        \A i, j \in DOMAIN o : i # j => o[i] # o[j]}

InitSvc ==
    /\ n = 0
    /\ ChainInit
    /\ EhIdle
    /\ JsonIdle
    /\ EqualIdle
    /\ ConcIdle
    /\ apiReq \in ServiceRequests
    /\ apiOut = [op |-> "none"]
    /\ dbRows \in Tables

Served(op, fault, r) ==
    /\ apiOut' = [op |-> op, todo |-> r.todo, err |-> r.err, fault |-> fault,
                  before |-> dbRows]
    /\ dbRows' = r.rows
    /\ UNCHANGED <<apiReq, ApiRest>>

SvGet ==
    /\ apiOut.op = "none" /\ apiReq.op = "service.Get"
    /\ \E fault \in GetFaults, order \in Orders(dbRows) :
         LET r == ServiceGet(dbRows, order, apiReq.in, fault)
         IN /\ apiOut' = [op |-> "service.Get", todos |-> r.todos, err |-> r.err,
                          fault |-> fault, before |-> dbRows]
            /\ dbRows' = r.rows
            /\ UNCHANGED <<apiReq, ApiRest>>

SvGetByID ==
    /\ apiOut.op = "none" /\ apiReq.op = "service.GetByID"
    /\ \E fault \in Faults :
         /\ fault.affected = Nil
         /\ Served("service.GetByID", fault, ServiceGetByID(dbRows, apiReq.id, fault))

\* the id of the new row is one no row is stored under
SvCreate ==
    /\ apiOut.op = "none" /\ apiReq.op = "service.Create"
    /\ \E fault \in Faults, newID \in (StoredIds \cup {OtherID}) \ DOMAIN dbRows :
         /\ fault.affected = Nil
         /\ Served("service.Create", fault,
                   ServiceCreate(dbRows, newID, apiReq.in, fault))

SvUpdate ==
    /\ apiOut.op = "none" /\ apiReq.op = "service.Update"
    /\ \E fault \in Faults :
         /\ fault.affected = Nil
         /\ Served("service.Update", fault,
                   ServiceUpdate(dbRows, apiReq.id, apiReq.in, fault))

SvDelete ==
    /\ apiOut.op = "none" /\ apiReq.op = "service.Delete"
    /\ \E fault \in Faults :
         Served("service.Delete", fault, ServiceDelete(dbRows, apiReq.id, fault))

NextSvc ==
    \/ SvGet
    \/ SvGetByID
    \/ SvCreate
    \/ SvUpdate
    \/ SvDelete

SpecSvc == InitSvc /\ [][NextSvc]_vars

(***************************************************************************)
(* Properties.                                                             *)
(***************************************************************************)
InterceptorIds == 0..(n - 1)

\* the interceptor frames of the call stack
Frames == {stack[k] : k \in {j \in 1..Len(stack) : stack[j].k = "icp"}}

\* the Write calls seen by gin's writer: who wrote what
Written == [k \in 1..Len(writes) |-> [by |-> writes[k].by, data |-> writes[k].data]]

\* interceptor i returned a Response without having called Next()
ShortCircuited(i) == links[i].outcome = "returned" /\ ~links[i].nextCalled

\* C1: when an interceptor returns without having called Next(), the handler
\* and every later interceptor are never invoked in that exchange.
C1_ShortCircuitStopsChain ==
    \A i \in InterceptorIds :
        ShortCircuited(i) =>
            /\ calls[n] = 0
            /\ \A j \in InterceptorIds : j > i => calls[j] = 0

C1_Witness ==
    /\ phase = "done"
    /\ n = 3
    /\ links[0].outcome = "returned" /\ links[0].nextCalled
    /\ ShortCircuited(1)
    /\ calls[2] = 0 /\ calls[3] = 0

\* the handler's Write reached the sink and the sink took all of it
HandlerBodyDelivered ==
    \E k \in 1..Len(writes) :
        /\ writes[k].by = n
        /\ writes[k].n = Len(writes[k].data)
        /\ ~writes[k].err

\* C2 as stated: the Response an interceptor gets from Next() has the body
\* of the Response the handler returned, byte for byte (taken in the
\* exchanges where the sink accepts every write).
C2_NextBodyIsHandlerBody ==
    \A f \in Frames :
        (/\ f.nextCalled
         /\ handlerOut.kind = "ret"
         /\ \A k \in 1..Len(writes) : ~writes[k].err) =>
            f.seen.Body.b = handlerOut.resp.Body.b

\* C2 amended: the Response an interceptor gets from Next() has the body of
\* the handler's Response when that status allows a body (not 1xx, 204,
\* 304) and the sink accepted the handler's write in full; otherwise the
\* body it gets is empty.
C2_NextBodyIsDeliveredBody ==
    \A f \in Frames :
        (f.nextCalled /\ handlerOut.kind = "ret") =>
            f.seen.Body.b =
                IF RenderWrites(handlerOut.resp) /\ HandlerBodyDelivered
                THEN handlerOut.resp.Body.b
                ELSE <<>>

C2_Witness ==
    \E f \in Frames :
        /\ f.nextCalled
        /\ handlerOut.kind = "ret"
        /\ handlerOut.resp.Status = StatusOK
        /\ f.seen.Body = Bytes(<<"h1", "h2">>)

\* the Response the handler wrapper renders: the handler's, or the 500 made
\* from its panic
HandlerResponse ==
    IF handlerOut.kind = "ret" THEN handlerOut.resp ELSE PanicResponse(handlerOut.v)

\* of three interceptors the middle one panicked before calling Next(), the
\* other two called Next() and returned
MiddleFaulted ==
    /\ n = 3
    /\ links[0].outcome = "returned" /\ links[0].nextCalled
    /\ links[1].outcome = "panicked" /\ ~links[1].nextCalled
    /\ links[2].outcome = "returned" /\ links[2].nextCalled

\* C3: with I1, I2, I3 where I2 panics before Next() and I1, I3 call Next(),
\* I3 and the handler still run, the sink gets the handler's response (its
\* status, its body and no other write) and the fault is reported once.
C3_FaultyInterceptorSkipped ==
    (phase = "done" /\ MiddleFaulted) =>
        /\ calls[2] = 1
        /\ calls[3] = 1
        /\ sink.status = HandlerResponse.Status
        /\ (handlerOut.kind = "ret" => sink.status # StatusInternalServerError)
        /\ Written = IF RenderWrites(HandlerResponse)
                     THEN <<[by |-> 3, data |-> HandlerResponse.Body.b]>>
                     ELSE <<>>
        /\ Len(notices) = 1
        /\ notices[1].kind = "panic"

C3_Witness ==
    /\ phase = "done"
    /\ MiddleFaulted
    /\ handlerOut.kind = "ret"
    /\ sink.status = StatusOK
    /\ sink.body = <<"h1", "h2">>

\* the JSON error body of a 500 whose only cause is the text v
InternalErrorJSON(v) ==
    <<"{", "\"status\":", "5", "0", "0", ",",
      "\"error\":", "\"", "Internal Server Error", "\"", ",",
      "\"message\":", "\"", "Internal Server Error", "\"", ",",
      "\"causes\":", "[", "\"", v, "\"", "]", "}">>

\* C4: when the handler wrapped by NewHandlerJSON panics, the panic does not
\* leave the wrapper and exactly one response is rendered: status 500 and
\* the JSON error body whose causes hold the fault's description.
C4_HandlerPanicIs500 ==
    handlerOut.kind = "panic" =>
        /\ ~crashed
        /\ renders = 1
        /\ w.status = StatusInternalServerError
        /\ w.header["Content-Type"] = <<"application/json">>
        /\ Written = <<[by |-> n, data |-> InternalErrorJSON(handlerOut.v)]>>
        /\ (phase = "done" => sink.status = StatusInternalServerError)

C4_Witness ==
    /\ phase = "done"
    /\ n >= 1
    /\ handlerOut.kind = "panic"
    /\ sink.status = StatusInternalServerError
    /\ sink.body = InternalErrorJSON("boom")

\* indices of the mappers that match the error
Matching == {i \in 1..Len(ehMappers) : ApplyMapper(ehMappers[i], ehErr).ok}
LastMatching == CHOOSE i \in Matching : \A j \in Matching : j <= i

\* C5: when at least one mapper matches, HandleStatusWithDefault returns the
\* status of the matching mapper registered last.
C5_LastMatchWins ==
    (ehResult.op = "HandleStatusWithDefault" /\ Matching # {}) =>
        ehResult.status = ehMappers[LastMatching].sc

C5_Witness ==
    /\ ehResult.op = "HandleStatusWithDefault"
    /\ ehMappers = <<NewErrorHandlerValueMapper(ErrTodoNotFound, StatusBadRequest),
                     NewErrorHandlerValueMapper(ErrTodoNotFound, StatusNotFound)>>
    /\ ehErr = ErrTodoNotFound
    /\ ehResult.status = StatusNotFound

\* a step in which the running interceptor, having called Next(), returns or
\* panics: its middleware function ends
EndsAfterNext ==
    /\ phase = "serving"
    /\ Len(stack) > 0
    /\ Top.k = "icp"
    /\ Top.nextCalled
    /\ Len(stack') < Len(stack)

\* C6: when an interceptor that called Next() returns, the status and the
\* body of the live output stay what the downstream links wrote, whatever
\* Response it returns.
C6_NoRewriteAfterNext ==
    [][EndsAfterNext =>
        /\ w'.status = w.status
        /\ w'.written = w.written
        /\ writes' = writes
        /\ sink' = sink
        /\ capture' = capture]_vars

C6_Witness ==
    /\ lastReturn.by # -1
    /\ lastReturn.nextCalled
    /\ handlerOut.kind = "ret"
    /\ handlerOut.resp.Status = StatusOK
    /\ lastReturn.resp.Status = StatusNotFound
    /\ lastReturn.resp.Body = Bytes(<<"i1", "i2">>)
    /\ w.status = StatusOK
    /\ sink.body = <<"h1", "h2">>

\* a step in which the running interceptor returns a Response
Returns ==
    /\ phase = "serving"
    /\ Len(stack) > 0
    /\ Top.k = "icp"
    /\ Len(stack') < Len(stack)
    /\ links'[Top.i].outcome = "returned"

\* C7 as stated: for every header key of the returned Response, the live
\* values become the declared ones when the two differ as value sets, and
\* stay as they are when they do not.
C7_HeadersReconciled ==
    [][Returns =>
        \A k \in HeaderKeys :
            Len(lastReturn'.resp.Headers[k]) > 0 =>
                w'.header[k] =
                    IF Range(lastReturn'.resp.Headers[k]) # Range(w.header[k])
                    THEN lastReturn'.resp.Headers[k]
                    ELSE w.header[k]]_vars

\* C8: when an interceptor returns Response R without having called Next(),
\* the live status is R.Status and the only Write of the exchange is R.Body,
\* once and unchanged, when it is not empty.
C8_ShortCircuitWritesResponse ==
    swallowed.by # -1 =>
        /\ w.status = swallowed.resp.Status
        /\ Written = IF Len(swallowed.resp.Body.b) > 0
                     THEN <<[by |-> swallowed.by, data |-> swallowed.resp.Body.b]>>
                     ELSE <<>>
        /\ (phase = "done" => sink.status = swallowed.resp.Status)

C8_Witness ==
    /\ phase = "done"
    /\ swallowed.by = 1
    /\ links[0].outcome = "returned" /\ links[0].nextCalled
    /\ sink.status = StatusNotFound
    /\ sink.body = <<"i1", "i2">>

\* C9 as stated: at most one capturing wrapper is installed around the
\* response writer in an exchange.
C9_SingleCapture == Len(capture) <= 1

\* C10: when no mapper matches, HandleStatusWithDefault returns the default
\* it was given and HandleStatus returns 500.
C10_DefaultWhenNoMatch ==
    Matching = {} =>
        /\ ehResult.op = "HandleStatusWithDefault" => ehResult.status = ehDef
        /\ ehResult.op = "HandleStatus" => ehResult.status = StatusInternalServerError

C10_Witness ==
    /\ ehResult.op = "HandleStatusWithDefault"
    /\ Len(ehMappers) = 2
    /\ Matching = {}
    /\ ehDef = StatusBadRequest
    /\ ehResult.status = StatusBadRequest

(***************************************************************************)
(* The errors of the unwrap tree of e, e included.                         *)
(***************************************************************************)
RECURSIVE UnwrapTree(_)
UnwrapTree(e) == {e} \cup UNION {UnwrapTree(e.inner[i]) : i \in 1..Len(e.inner)}

\* C11: Handle(e) is the ResponseError whose status is
\* HandleStatusWithDefault(e, 500) and whose causes are exactly [e];
\* HandleWithDefault(e, d) is the same with d in place of 500.
C11_HandleBuildsResponseError ==
    /\ ehResult.op = "Handle" =>
          /\ ehResult.status =
                StatusLoop(ehMappers, 1, ehErr, StatusInternalServerError)
          /\ ehResult.causes = <<ehErr>>
    /\ ehResult.op = "HandleWithDefault" =>
          /\ ehResult.status = StatusLoop(ehMappers, 1, ehErr, ehDef)
          /\ ehResult.causes = <<ehErr>>

C11_Witness ==
    /\ ehResult.op = "Handle"
    /\ ehMappers = <<NewErrorHandlerValueMapper(ErrTodoNotFound, StatusNotFound)>>
    /\ ehErr = ErrTodoNotFound
    /\ ehResult.status = StatusNotFound
    /\ ehResult.causes = <<ErrTodoNotFound>>

\* C12: a value mapper for sentinel s and status c returns (c, true) exactly
\* when the unwrap tree of the error contains s, at any wrapping depth, and
\* (_, false) otherwise.
C12_ValueMapperTraversesWraps ==
    (ehResult.op = "Mapper" /\ ehMappers[ehResult.m].kind = "value") =>
        LET mp == ehMappers[ehResult.m]
        IN /\ ehResult.ok <=> (mp.v \in UnwrapTree(ehErr))
           /\ ehResult.ok => ehResult.status = mp.sc

\* Handle of a triple-wrapped sentinel has the sentinel's mapped status
C12_Witness ==
    /\ ehResult.op = "Handle"
    /\ ehMappers = <<NewErrorHandlerValueMapper(ErrTodoNotFound, StatusNotFound)>>
    /\ ehErr = WrapN(ErrTodoNotFound, 3)
    /\ ehResult.status = StatusNotFound

\* C13: a type mapper built from an exemplar of concrete type T matches an
\* error only if the unwrap tree of the error holds an error of concrete
\* type T; it never matches an error of another concrete type.
C13_TypeMapperConcreteTypeOnly ==
    (ehResult.op = "Mapper" /\ ehMappers[ehResult.m].kind = "type") =>
        (ehResult.ok =>
            \E x \in UnwrapTree(ehErr) : x.type = ehMappers[ehResult.m].v.type)

C13_Witness ==
    /\ ehResult.op = "Mapper"
    /\ ehMappers[ehResult.m] =
          NewErrorHandlerTypeMapper(ValidationError(""), StatusBadRequest)
    /\ ehErr = Wrap(CustomError("c1"))
    /\ ~ehResult.ok

(***************************************************************************)
(* Reading a serialized error body back: the value of a field.             *)
(***************************************************************************)
IndexOf(seq, tok) ==
    CHOOSE i \in 1..Len(seq) : seq[i] = tok /\ \A j \in 1..(i - 1) : seq[j] # tok

DigitValue(t) == CHOOSE d \in 0..9 : Digit(d) = t

RECURSIVE DigitsValue(_)
DigitsValue(ts) ==
    IF Len(ts) = 0 THEN 0
    ELSE 10 * DigitsValue(SubSeq(ts, 1, Len(ts) - 1)) + DigitValue(ts[Len(ts)])

JSONFieldNumber(body, key) ==
    LET k == IndexOf(body, key)
        rest == SubSeq(body, k + 1, Len(body))
    IN DigitsValue(SubSeq(rest, 1, IndexOf(rest, ",") - 1))

JSONFieldString(body, key) == body[IndexOf(body, key) + 2]

IsPunctuation(t) == t \in {"\"", ","}

JSONFieldStrings(body, key) ==
    LET k == IndexOf(body, key)
        rest == SubSeq(body, k + 2, Len(body))
        items == SubSeq(rest, 1, IndexOf(rest, "]") - 1)
    IN SelectSeq(items, LAMBDA t : ~IsPunctuation(t))

CauseMessages == [i \in 1..Len(jsErr.Causes) |-> ErrorMessage(jsErr.Causes[i])]

ErrorBodyShape(body) ==
    /\ JSONFieldNumber(body, "\"status\":") = jsErr.Status
    /\ JSONFieldString(body, "\"error\":") = StatusText(jsErr.Status)
    /\ JSONFieldString(body, "\"message\":") = StatusText(jsErr.Status)
    /\ IF Len(jsErr.Causes) = 0
       THEN "\"causes\":" \notin Range(body)
       ELSE /\ "\"causes\":" \in Range(body)
            /\ JSONFieldStrings(body, "\"causes\":") = CauseMessages

\* C14: the serialized error body has status = the status code, error and
\* message = the HTTP status text (never cause text), causes = the cause
\* messages in order, omitted when there is none; the Response built by
\* NewJSONResponseFromError carries the same status code and Content-Type
\* application/json.
C14_ErrorBodyShape ==
    /\ jsResult.op = "MarshalJSON" => ErrorBodyShape(jsResult.out)
    /\ jsResult.op = "NewJSONResponseFromError" =>
          /\ jsResult.resp.Status = jsErr.Status
          /\ jsResult.resp.Headers["Content-Type"] = <<"application/json">>
          /\ ~jsResult.resp.Body.nil
          /\ ErrorBodyShape(jsResult.resp.Body.b)

C14_Witness ==
    /\ jsResult.op = "NewJSONResponseFromError"
    /\ jsErr = NewResponseError(StatusNotFound, <<NewError("A"), NewError("B")>>)
    /\ jsResult.resp.Status = StatusNotFound
    /\ jsResult.resp.Body.b =
          <<"{", "\"status\":", "4", "0", "4", ",",
            "\"error\":", "\"", "Not Found", "\"", ",",
            "\"message\":", "\"", "Not Found", "\"", ",",
            "\"causes\":", "[", "\"", "A", "\"", ",", "\"", "B", "\"", "]", "}">>

\* the first k messages, separated by ", "
RECURSIVE CommaList(_, _)
CommaList(msgs, k) ==
    IF k = 1 THEN msgs[1] ELSE (CommaList(msgs, k - 1) \o ", ") \o msgs[k]

\* C15: Error() of a ResponseError with status text T and causes c1..cn is T
\* when n = 0, "T: c1" when n = 1, and "T: c1, ..., c(n-1) and cn" when
\* n >= 2.
C15_ErrorText ==
    jsResult.op = "Error" =>
        LET T == StatusText(jsErr.Status)
            count == Len(jsErr.Causes)
        IN jsResult.out =
             (CASE count = 0 -> T
                [] count = 1 -> (T \o ": ") \o CauseMessages[1]
                [] OTHER -> (((T \o ": ") \o CommaList(CauseMessages, count - 1))
                                \o " and ") \o CauseMessages[count])

C15_Witness ==
    /\ jsResult.op = "Error"
    /\ jsErr = NewResponseError(StatusBadRequest,
                                <<NewError("A"), NewError("B"), NewError("C")>>)
    /\ jsResult.out = "Bad Request: A, B and C"

\* the value cannot be encoded as JSON
Unencodable(b) == b.kind = "float"

\* C20 as stated: NewJSONResponse(sc, b) always returns a Response with
\* Content-Type application/json; when b cannot be encoded the Response has
\* status 500 and the internal-error body naming the type of the value and
\* the encoding failure; when b is nil the body is nil; when b is a string
\* or a byte slice the body is exactly those bytes.
C20_NewJSONResponseTotal ==
    jsResult.op = "NewJSONResponse" =>
        LET b == jsVal.b
            resp == jsResult.resp
        IN /\ resp.Headers["Content-Type"] = <<"application/json">>
           /\ Unencodable(b) =>
                 /\ resp.Status = StatusInternalServerError
                 /\ TypeName(b) \in Range(resp.Body.b)
                 /\ "json: unsupported value: +Inf" \in Range(resp.Body.b)
           /\ b.kind = "nil" => (resp.Status = jsVal.sc /\ resp.Body.nil)
           /\ b.kind = "string" => (resp.Status = jsVal.sc /\ resp.Body.b = b.s)
           /\ b.kind = "bytes" => (resp.Status = jsVal.sc /\ resp.Body.b = b.by.b)

\* the number of occurrences of x in the list vs
Count(vs, x) == Cardinality({i \in 1..Len(vs) : vs[i] = x})

SameMultiset(a, b) == \A x \in Range(a) \cup Range(b) : Count(a, x) = Count(b, x)

\* C16 as stated: Response.Equal is reflexive and symmetric, headers with
\* repeated values for one key included.
C16_EqualReflexiveSymmetric ==
    /\ \A c \in eqResult : c.r = c.v => c.eq
    /\ \A c, d \in eqResult : (c.r = d.v /\ c.v = d.r) => c.eq = d.eq

\* C17 as stated: a.Equal(b) is true if and only if the statuses are equal,
\* the body bytes are equal, and both have the same header keys with, for
\* each key, the same multiset of values.
C17_EqualIffSameContent ==
    \A c \in eqResult :
        LET a == EqOperand(c.r)
            b == EqOperand(c.v)
        IN c.eq <=>
            /\ a.Status = b.Status
            /\ a.Body.b = b.Body.b
            /\ DOMAIN a.Headers = DOMAIN b.Headers
            /\ \A k \in DOMAIN a.Headers : SameMultiset(a.Headers[k], b.Headers[k])

\* C18 as stated: while two exchanges call HandleStatusWithDefault on one
\* ErrorHandler concurrently, no step writes to state shared between the two
\* calls (no target of a mapper is assigned), and each call returns the
\* status it returns when it runs alone.
C18_NoSharedWrites ==
    /\ \A m \in 1..Len(ccMappers) : DOMAIN ccWriters[m] = {} /\ ccTarget[m] = <<>>
    /\ \A e \in Exchanges :
          CcReturned(e) =>
              ccStatus[e] =
                  HandleStatusWithDefault(NewErrorHandler(ccMappers),
                                          ccErr[e].err, ccErr[e].def)

(***************************************************************************)
(* Contexts along the chain.                                               *)
(***************************************************************************)
\* positions on the stack of the interceptors that wait in Next() after an
\* Apply, below position q
UpstreamApplied(q) ==
    {p \in 1..(q - 1) : stack[p].k = "icp" /\ AppliedBeforeNext(stack[p])}

\* the nearest of them
LastApplied(q) == CHOOSE p \in UpstreamApplied(q) : \A r \in UpstreamApplied(q) : r <= p

\* a link strictly between i and j applied a context and then panicked
AppliedAndPanicked(i, j) ==
    \E k \in (i + 1)..(j - 1) : links[k].outcome = "panicked" /\ links[k].applied

\* gin's loop is about to call the terminal handler
HandlerDue == phase = "serving" /\ Top.k = "loop" /\ index = FirstLink + n

\* C19: after interceptor Ii called Apply(ctx) and then Next(), every
\* downstream interceptor Ij and the terminal handler get ctx from
\* Context(), unless a link between them applied another context.
C19_AppliedContextReachesDownstream ==
    /\ \A q \in 1..Len(stack) :
          (stack[q].k = "icp" /\ UpstreamApplied(q) # {}) =>
              LET f == stack[LastApplied(q)]
              IN ~AppliedAndPanicked(f.i, stack[q].i) => stack[q].ctx = f.i
    /\ (HandlerDue /\ UpstreamApplied(Len(stack)) # {}) =>
          LET f == stack[LastApplied(Len(stack))]
          IN ~AppliedAndPanicked(f.i, n) => Context = f.i

C19_Witness ==
    /\ n = 3
    /\ HandlerDue
    /\ Len(stack) = 7
    /\ AppliedBeforeNext(stack[2]) /\ stack[2].i = 0
    /\ stack[4].i = 1 /\ stack[4].applies = 0 /\ stack[4].ctx = 0
    /\ stack[6].i = 2 /\ stack[6].applies = 0 /\ stack[6].ctx = 0
    /\ Len(capture) = 2
    /\ Context = 0

\* the step in which the panic of an interceptor is recovered
PanicRecovered ==
    \E i \in InterceptorIds :
        links[i].outcome = "running" /\ links'[i].outcome = "panicked"

\* C25: the recovery of a faulting interceptor writes no status and no
\* body, reconciles no header and does not abort the chain: the writer, the
\* sink, the writes and the captures are left as they were and gin's index
\* just moves on to the next link.
C25_FaultWritesNothing ==
    [][PanicRecovered =>
          /\ w' = w
          /\ sink' = sink
          /\ writes' = writes
          /\ capture' = capture
          /\ index' = Int8Inc(index)]_vars

C25_Witness ==
    /\ n = 1
    /\ phase = "done"
    /\ links[0].outcome = "panicked" /\ ~links[0].nextCalled
    /\ handlerOut.kind = "ret"
    /\ sink.status = StatusOK
    /\ Written = <<[by |-> 1, data |-> <<"h1", "h2">>]>>
    /\ sink.body = <<"h1", "h2">>

\* the step in which an interceptor that did not call Next() returns a
\* Response with a body
ShortCircuitWithBody ==
    /\ Returns
    /\ ~Top.nextCalled
    /\ Len(lastReturn'.resp.Body.b) > 0

\* C30: in the short-circuit path the status and the body are written
\* before the headers of the returned Response are set: the header sent with
\* the first body byte is the live header as it was before the interceptor
\* returned, and the declared headers are on the live output only afterwards.
C30_ShortCircuitBodyBeforeHeaders ==
    [][ShortCircuitWithBody =>
          /\ Len(writes') = Len(writes) + 1
          /\ writes'[Len(writes')].data = lastReturn'.resp.Body.b
          /\ sink'.status = lastReturn'.resp.Status
          /\ sink'.header = w.header
          /\ w'.header = Reconcile(lastReturn'.resp.Headers, w.header)]_vars

C30_Witness ==
    /\ phase = "done"
    /\ swallowed.by = 0
    /\ swallowed.resp.Headers["X-Trace"] = <<"a", "a">>
    /\ Len(writes) = 1 /\ writes[1].n = 2
    /\ sink.body = <<"i1", "i2">>
    /\ sink.header["X-Trace"] = <<>>
    /\ w.header["X-Trace"] = <<"a", "a">>

\* the bytes of the writes that the sink took in full and without error
RECURSIVE CompleteWrites(_)
CompleteWrites(ws) ==
    IF ws = <<>> THEN <<>>
    ELSE LET last == ws[Len(ws)]
         IN CompleteWrites(Pop(ws))
                \o (IF last.n = Len(last.data) /\ ~last.err THEN last.data ELSE <<>>)

\* C26 as stated: the buffer of the capturing writer installed at the start
\* of the exchange holds exactly the bytes the sink accepted, in order.
C26_CaptureIsAcceptedBytes ==
    Len(capture) >= 1 => capture[1] = sink.body

\* C26, amended: the buffer of the capturing writer holds, in order, the
\* bytes of the writes that the sink accepted in full and without error; the
\* accepted part of a partial write is in the sink and not in the buffer.
C26_CaptureIsCompleteWrites ==
    Len(capture) >= 1 => capture[1] = CompleteWrites(writes)

C26_Witness ==
    /\ Len(capture) = 1
    /\ Len(writes) = 1
    /\ writes[1].data = <<"h1", "h2">> /\ writes[1].n = 1 /\ writes[1].err
    /\ sink.body = <<"h1">>
    /\ capture[1] = <<>>

\* the step in which the running interceptor calls Apply
Applies ==
    /\ Len(stack) > 0
    /\ Len(stack') = Len(stack)
    /\ Top.k = "icp"
    /\ stack'[Len(stack)].applies # Top.applies

\* C27: Apply replaces the context of the shared request and nothing else
\* does (a Next() that returns, a link that returns or faults leave it as it
\* is, and the capture stored by a starting link is a child of it): what
\* Context() gives an upstream interceptor once its Next() has returned is
\* the context of the last Apply made downstream.
C27_ApplyIsSeenUpstream ==
    [][/\ Applies => Context' = Top.i
       /\ ~Applies => Context' = Context]_vars

\* I0 started with the transport's context, did not apply, and is back from
\* Next(): Context() is the context I1 applied
C27_Witness ==
    /\ n = 2
    /\ phase = "serving"
    /\ Len(stack) = 2
    /\ Top.k = "icp" /\ Top.i = 0 /\ Top.nextCalled
    /\ Top.ctx = -1 /\ Top.applies = 0
    /\ links[1].outcome = "returned" /\ links[1].nextCalled
    /\ handlerOut.kind = "ret"
    /\ Context = 1

Finished(j) == links[j].outcome \in {"returned", "panicked"}

\* the links start in the order of registration, the handler after all of
\* them, and an interceptor is back from Next() and returns only when the
\* links after it that started have finished
RunsInOrder ==
    /\ \A i, j \in InterceptorIds : (i < j /\ calls[j] > 0) => calls[i] > 0
    /\ calls[n] > 0 => (\A i \in InterceptorIds : calls[i] > 0)
    /\ calls[n] > 0 => handlerOut.kind # "none"
    /\ \A i, j \in InterceptorIds :
          (i < j /\ links[i].outcome = "returned" /\ links[i].nextCalled
             /\ calls[j] > 0) => Finished(j)

\* an interceptor that called Next() returns after a later-registered one
\* that called Next() too, and the two declare different values for key k
DeclaredAfter(k) ==
    /\ Returns
    /\ Top.nextCalled
    /\ lastReturn.by > Top.i
    /\ lastReturn.nextCalled
    /\ Len(lastReturn.resp.Headers[k]) > 0
    /\ Len(lastReturn'.resp.Headers[k]) > 0
    /\ lastReturn'.resp.Headers[k] # lastReturn.resp.Headers[k]

\* C29 as stated: interceptors that call Next() run their first part in the
\* order of registration, then the handler runs, then they return in the
\* reverse order; and when two of them declare different values for a header
\* key, the live output is left with the values of the earlier-registered.
C29_EarlierRegisteredWins ==
    /\ []RunsInOrder
    /\ [][\A k \in HeaderKeys :
            DeclaredAfter(k) => w'.header[k] = lastReturn'.resp.Headers[k]]_vars

\* C28 as stated: no interceptor and no handler is invoked twice in an
\* exchange, whatever the interceptors do.
C28_InvokedAtMostOnce == \A i \in 0..n : calls[i] <= 1

\* the fewest repeated Next() calls that take gin's index to -1, after
\* which the loop that invoked the first interceptor reaches handlers[0]
\* again: when a write of the handler's render fails gin aborts, the loop
\* of the handler leaves the index at the abort index plus one, and every
\* interceptor but the first adds one when it returns
WrapNextCalls == 256 - Int8Inc(Abort(0)) - n

\* the panics of handlers[-128] to handlers[-2] the interceptor functions
\* have to recover on the way, but for one that each interceptor after the
\* first may let through
WrapPanics == 128 - n

\* C28, amended: no interceptor and no handler is invoked twice unless the
\* n interceptors made at least 192 - n repeated Next() calls and recovered
\* at least 128 - n index-out-of-range panics of Next().
C28_InvokedAtMostOnceBeforeWrap ==
    (repeats < WrapNextCalls \/ recovered < WrapPanics) =>
        \A i \in 0..n : calls[i] <= 1

\* the first of two interceptors called Next() again and again, 189
\* repeated calls in all, recovered the 127 panics of the last of them and
\* returned; gin.Recovery() recovered the panic of the loop that had
\* invoked it: the second interceptor and the handler ran once
C28_Witness ==
    /\ n = 2
    /\ phase = "done"
    /\ repeats = 189
    /\ recovered = 127
    /\ crashed
    /\ links[0].nextCalled /\ links[1].nextCalled
    /\ handlerOut.kind = "ret"
    /\ calls[0] = 1 /\ calls[1] = 1 /\ calls[2] = 1
    /\ renders = 1

\* what makes a request fail validation
BadValue(f, valid) == f.t = "string" /\ f.s \notin valid
TooLong(f, max) == f.t = "string" /\ Len(f.s) > max
IdRefused(req) == req.id # <<ValidID>>
BodyUndecodable(b) ==
    \/ b.kind \in {"malformed", "empty"}
    \/ \E f \in {b.title, b.description, b.status, b.priority} : f.t = "number"
BodyFieldsRefused(b) ==
    \/ TooLong(b.title, 100)
    \/ TooLong(b.description, 500)
    \/ BadValue(b.status, {"pending", "in_progress", "completed"})
    \/ BadValue(b.priority, {"low", "medium", "high"})
NoField(b) ==
    \A f \in {b.title, b.description, b.status, b.priority} : f.t # "string"
FailsValidation(req) ==
    CASE req.op = "Create" ->
            \/ BodyUndecodable(req.body)
            \/ BodyFieldsRefused(req.body)
            \/ req.body.title.t # "string" \/ req.body.title.s = ""
      [] req.op = "Update" ->
            \/ IdRefused(req)
            \/ BodyUndecodable(req.body)
            \/ BodyFieldsRefused(req.body)
            \/ NoField(req.body)
            \/ req.body.title = JString("")
      [] req.op = "Get" ->
            \/ req.query.status \notin
                    {Nil, <<"pending">>, <<"in_progress">>, <<"completed">>}
            \/ req.query.priority \notin {Nil, <<"low">>, <<"medium">>, <<"high">>}
      [] OTHER -> IdRefused(req)

\* C21: a request that fails validation is answered with status 400 and
\* neither the usecase nor the service is invoked for it.
C21_InvalidRequestIs400 ==
    (apiOut.op # "none" /\ FailsValidation(apiReq)) =>
        /\ apiOut.resp.Status = 400
        /\ apiOut.calls = <<>>

C21_Witness ==
    /\ apiOut.op = "Update"
    /\ apiReq.id = <<ValidID>>
    /\ apiReq.body.kind = "object"
    /\ Len(apiReq.body.title.s) = 101
    /\ apiReq.body.status = JString("in_progress")
    /\ apiOut.resp.Status = 400
    /\ apiOut.calls = <<>>

\* no mapper of the controller's ErrorHandler matches e
Unmapped(e) ==
    \A i \in 1..Len(newErrorHandler.mappers) :
        ~ErrorsIs(e, newErrorHandler.mappers[i].v)

SuccessStatus(op) ==
    CASE op = "Create" -> 201
      [] op = "Delete" -> 204
      [] OTHER -> 200

\* C22: on a valid request the usecase is invoked; when it returns an error
\* e the status is the ErrorHandler's status for e, 404 for ErrTodoNotFound
\* and 500 when no mapper matches; when it succeeds the status is 200 for
\* Get, GetByID and Update, 201 for Create and 204 without body for Delete.
C22_StatusOfValidRequest ==
    (apiOut.op # "none" /\ ~FailsValidation(apiReq)) =>
        /\ Len(apiOut.calls) = 2
        /\ apiOut.calls[1].layer = "usecase" /\ apiOut.calls[1].op = apiOut.op
        /\ IF apiOut.svc.err # Nil
           THEN LET e == apiOut.svc.err[1]
                IN /\ apiOut.resp.Status = HandleStatus(newErrorHandler, e)
                   /\ e = ErrTodoNotFound => apiOut.resp.Status = 404
                   /\ Unmapped(e) => apiOut.resp.Status = 500
           ELSE /\ apiOut.resp.Status = SuccessStatus(apiOut.op)
                /\ apiOut.op = "Delete" => apiOut.resp.Body = NilBytes
                /\ apiOut.op # "Delete" => Len(apiOut.resp.Body.b) > 0

C22_Witness ==
    /\ apiOut.op = "GetByID"
    /\ apiReq.id = <<ValidID>>
    /\ apiOut.svc.err = <<ErrTodoNotFound>>
    /\ apiOut.resp.Status = 404
    /\ Len(apiOut.calls) = 2

\* C23: usecase.Create hands the service status pending and priority medium
\* when the input has none, the given ones otherwise, title and description
\* as they are; a service error is returned as it is with an empty output.
C23_CreateDefaults ==
    apiOut.op = "usecase.Create" =>
        /\ Len(apiOut.calls) = 1
        /\ apiOut.calls[1].op = "Create"
        /\ LET in == apiReq.in
               sent == apiOut.calls[1].in
           IN /\ sent.Status = IF in.Status = Nil THEN "pending" ELSE in.Status[1]
              /\ sent.Priority = IF in.Priority = Nil THEN "medium" ELSE in.Priority[1]
              /\ sent.Title = in.Title
              /\ sent.Description = in.Description
        /\ apiOut.svc.err # Nil =>
              (apiOut.err = apiOut.svc.err /\ apiOut.out = ZeroTodo)
        /\ apiOut.svc.err = Nil => (apiOut.err = Nil /\ apiOut.out = apiOut.svc.todo)

C23_Witness ==
    /\ apiOut.op = "usecase.Create"
    /\ apiReq.in.Status = Nil
    /\ apiReq.in.Priority = <<"low">>
    /\ apiOut.calls[1].in.Status = "pending"
    /\ apiOut.calls[1].in.Priority = "low"
    /\ apiOut.err = <<NewError("database error")>>
    /\ apiOut.out = ZeroTodo

\* C24: for an id with no stored row and no driver error, GetByID, Update
\* and Delete return ErrTodoNotFound and leave the rows as they were;
\* Delete of a stored id returns no error; an error of the driver is
\* returned as it is.
C24_MissingRowIsNotFound ==
    apiOut.op \in {"service.GetByID", "service.Update", "service.Delete"} =>
        LET stored == UUIDText(apiReq.id) \in DOMAIN apiOut.before
            f == apiOut.fault
        IN /\ (f.query = Nil /\ f.affected = Nil /\ ~stored) =>
                  (apiOut.err = <<ErrTodoNotFound>> /\ dbRows = apiOut.before)
           /\ (f.query = Nil /\ f.affected = Nil /\ stored
                  /\ apiOut.op = "service.Delete") =>
                  (apiOut.err = Nil /\ UUIDText(apiReq.id) \notin DOMAIN dbRows)
           /\ f.query # Nil =>
                  (apiOut.err = f.query /\ apiOut.err # <<ErrTodoNotFound>>)
           /\ (f.query = Nil /\ f.affected # Nil) => apiOut.err = f.affected

C24_Witness ==
    /\ apiOut.op = "service.Delete"
    /\ apiReq.id = OtherID
    /\ DOMAIN apiOut.before = {ValidID, ThirdID}
    /\ apiOut.fault = [query |-> Nil, affected |-> Nil]
    /\ apiOut.err = <<ErrTodoNotFound>>
    /\ dbRows = apiOut.before

====
